---- MODULE Spec2Model ----
(***************************************************************************)
(* Case lifecycle of the law_firm_management addon:                        *)
(*   services/case_state_service.py       CaseStateMachine and its states  *)
(*   services/case_validation_service.py  CaseValidationService            *)
(*   services/case_event_manager.py       CaseEventManager, observers      *)
(*   models/law_case.py                   LawCase.create / LawCase.write   *)
(*                                                                         *)
(* A change-set (the Python dict `vals`) is a function whose DOMAIN is the *)
(* set of keys present in the dict.  A date value is a record              *)
(* [kind, day]: kind "date" is a datetime.date, kind "str" the ISO string  *)
(* of that day, kind "false" the falsy False/None of an empty field.  A    *)
(* many2one reference is the record id, 0 when the field is empty.         *)
(* A message is a sequence <<template, arg, ...>>; <<>> stands for None.   *)
(***************************************************************************)
EXTENDS Integers, Sequences, FiniteSets, TLC

VARIABLES
    case,        \* the law.case record (id 0: no case exists yet)
    case_in,     \* the record as it was when the latest call was made
    old_state,   \* argument old_state of CaseStateMachine.transition
    new_state,   \* argument new_state of CaseStateMachine.transition
    today,       \* the day fields.Date.today() returns
    vals,        \* the caller's change-set dict (the hooks mutate it in place)
    vals_in,     \* the change-set as it was when the latest call was made
    result,      \* what the latest call returned
    hooks,       \* the hooks (validators) the latest call ran, in order
    log,         \* what the latest call wrote to the logger as warnings
    calls,       \* "none" before the first call, else the service called last
    observers,   \* CaseEventManager._observers: <<priority, observer>> entries
    reg_order,   \* the registered observers in the order of their registration
    event,       \* the event type of the event last passed to notify, "" before
    faults,      \* which observers fail on that event, and where
    handled,     \* the observers whose handle the latest notify called, in order
    returned,    \* how the latest manager call ended: "normal" or "raised"
    manager,     \* which CaseEventManager object the caller holds (numbered from 1)
    registry,    \* StrategyRegistry._REGISTRY: practice-area code -> strategy class
    lookup,      \* the latest StrategyRegistry call and what it returned
    rate_in,     \* the case (with its lawyer's record) passed to the success-rate service
    rate,        \* what the latest success-rate computation worked out and returned
    analysis_in, \* the precedents and client role passed to analyze_favorability
    analysis,    \* what the latest analyze_favorability call returned
    reentry,     \* what the observers' handle routines did to the registry during the latest notify
    activities,  \* the pending deadline-reminder mail.activity records of the case (their number)
    recordset    \* the law.case records of the recordset LawCase.write is called on

casevars == <<case, case_in, old_state, new_state, today, vals, vals_in, result, hooks, log>>

evvars == <<observers, reg_order, event, faults, handled, returned, manager>>

svcvars == <<registry, lookup, rate_in, rate, analysis_in, analysis>>

envvars == <<reentry, activities, recordset>>

vars == <<case, case_in, old_state, new_state, today, vals, vals_in, result, hooks, log, calls,
          observers, reg_order, event, faults, handled, returned, manager,
          registry, lookup, rate_in, rate, analysis_in, analysis,
          reentry, activities, recordset>>

(***************************************************************************)
(* Bounds of the model                                                     *)
(***************************************************************************)
MaxDay == 2
MaxObservers == 3

\* the largest number of manager objects get_instance hands out
MaxManagers == 2

\* the largest number of precedents available to a case
MaxPrecedents == 2

\* the largest number of closed won/lost cases in a lawyer's record
MaxPast == 4

\* the largest number of precedents in a recordset passed to analyze_favorability
MaxRecords == 5

\* the largest number of cases in a recordset LawCase.write is called on
MaxCases == 2

\* the largest number of pending reminders of a case the model follows
MaxActivities == 3

Days == 1 .. MaxDay
LawyerIds == {7}

(***************************************************************************)
(* Values                                                                  *)
(***************************************************************************)
NoDate == [kind |-> "false", day |-> 0]
DateObj(d) == [kind |-> "date", day |-> d]
DateStr(d) == [kind |-> "str", day |-> d]

\* Python truthiness of a date-typed value: False/None are falsy, a date or a
\* non-empty string is truthy.
DateTruthy(x) == x.kind # "false"

\* fields.Date.from_string: parses the ISO string of a day into the date.
from_string(x) == IF x.kind = "str" THEN DateObj(x.day) ELSE x

\* isinstance(x, str)
IsStr(x) == x.kind = "str"

\* (a - b).days for two datetime.date values
DeltaDays(a, b) == a.day - b.day

None == <<>>

(***************************************************************************)
(* dict operations                                                         *)
(***************************************************************************)
EmptyVals == [k \in {} |-> 0]

Has(v, k) == k \in DOMAIN v

\* v.get(k, d)
Get(v, k, d) == IF k \in DOMAIN v THEN v[k] ELSE d

\* v[k] = x
Set(v, k, x) == [kk \in (DOMAIN v) \cup {k} |-> IF kk = k THEN x ELSE v[kk]]

\* v.setdefault(k, x)
SetDefault(v, k, x) == IF k \in DOMAIN v THEN v ELSE Set(v, k, x)

\* every dict obtained from one of S by leaving k out or binding it in R
Ext(S, k, R) == S \cup {Set(f, k, r) : f \in S, r \in R}

(***************************************************************************)
(* The law.case record (models/law_case.py): the fields the services read. *)
(* id = 0 is the empty recordset, whose bool() is False and whose fields   *)
(* read as False ("" for a selection, 0 for a reference or an amount).     *)
(***************************************************************************)
EmptyCase ==
    [id |-> 0, code |-> "", state |-> "", stage_id |-> 0,
     responsible_employee_id |-> 0,
     open_date |-> NoDate, close_date |-> NoDate, actual_duration_days |-> 0,
     client_role |-> "", practice_area_id |-> 0, case_outcome |-> "",
     estimated_amount_claim |-> 0, estimated_amount_recovery |-> 0,
     estimated_legal_costs |-> 0, estimated_duration_months |-> 0]

CaseTruthy(c) == c.id # 0

\* CaseEventManager.__init__: no observer is registered, nothing was notified
\* no notify has run, the case has no reminder, no recordset was written
NewEnv ==
    /\ reentry = [k \in {} |-> 0]
    /\ activities = 0
    /\ recordset = <<>>

NewManager ==
    /\ observers = <<>>
    /\ reg_order = <<>>
    /\ event = ""
    /\ faults = EmptyVals
    /\ handled = <<>>
    /\ returned = "none"
    /\ manager = 1

(***************************************************************************)
(* Arithmetic of the success-rate engine.  The Python floats are modelled  *)
(* as exact fractions [num, den] in lowest terms with den > 0.             *)
(***************************************************************************)
Abs(x) == IF x < 0 THEN -x ELSE x

RECURSIVE GCD(_, _)
GCD(a, b) == IF b = 0 THEN a ELSE GCD(b, a % b)

Frac(n, d) ==
    LET g == GCD(Abs(n), Abs(d))
        s == IF d < 0 THEN -1 ELSE 1
    IN [num |-> (s * n) \div g, den |-> (s * d) \div g]

Num(i) == [num |-> i, den |-> 1]
FAdd(x, y) == Frac(x.num * y.den + y.num * x.den, x.den * y.den)
FMul(x, y) == Frac(x.num * y.num, x.den * y.den)
FDiv(x, y) == Frac(x.num * y.den, x.den * y.num)
FLe(x, y) == x.num * y.den <= y.num * x.den
FLt(x, y) == x.num * y.den < y.num * x.den
FMin(x, y) == IF FLe(x, y) THEN x ELSE y
FMax(x, y) == IF FLe(x, y) THEN y ELSE x
\* Python truthiness of a number: 0 and 0.0 are falsy
Truthy(x) == x.num # 0

(***************************************************************************)
(* The services' state before any of them is called                       *)
(***************************************************************************)
\* case_success_rate_service.py lines 322-327
_REGISTRY ==
    [k \in {"CIV", "civil", "PEN", "penal"} |->
        IF k \in {"CIV", "civil"} THEN "CivilSuccessRateStrategy"
        ELSE "PenalSuccessRateStrategy"]

NoArea == [id |-> 0, code |-> "", name |-> ""]
NoLawyer == [id |-> 0, years_of_experience |-> 0, past_total |-> 0, past_won |-> 0,
             active_cases |-> 0]

NoRateInput ==
    [evidence_strength |-> "", case_strength |-> "", client_role |-> "",
     precedent_count |-> 0, favorable_precedents_count |-> 0,
     practice_area |-> NoArea, lawyer |-> NoLawyer]

NoRate ==
    [strategy |-> "", strength_score |-> Num(0), factors |-> 0, avg_score |-> Num(0),
     lawyer_score |-> Num(0),
     final_rate |-> Num(0), returned |-> Num(0)]

NoLookup == [op |-> "none", code |-> "", cls |-> "", result |-> "", raised |-> FALSE]

NoAnalysisInput == [precedents |-> <<>>, client_role |-> ""]

NoAnalysis ==
    [favorable |-> {}, unfavorable |-> {}, neutral |-> {}, favorable_count |-> 0,
     unfavorable_count |-> 0, neutral_count |-> 0, favorable_ratio |-> Num(0)]

\* the class-level registry as the module defines it; no service was called
NewServices ==
    /\ registry = _REGISTRY
    /\ lookup = NoLookup
    /\ rate_in = NoRateInput
    /\ rate = NoRate
    /\ analysis_in = NoAnalysisInput
    /\ analysis = NoAnalysis

(***************************************************************************)
(* case_state_service.py: the state objects                                *)
(***************************************************************************)
STATES == {"draft", "open", "on_hold", "closed"}

\* a state name no state object is registered for
UnregisteredState == "archived"

StateNames == STATES \cup {UnregisteredState}

\* mutant: a closed case cannot be reopened
allowed_transitions_ClosedTerminal(s) ==
    CASE s = "draft" -> {"open"}
      [] s = "open" -> {"on_hold", "closed"}
      [] s = "on_hold" -> {"open", "closed"}
      [] OTHER -> {}

\* mutant: a draft case may be closed directly
allowed_transitions_DraftCloses(s) ==
    CASE s = "draft" -> {"open", "closed"}
      [] s = "open" -> {"on_hold", "closed"}
      [] s = "on_hold" -> {"open", "closed"}
      [] s = "closed" -> {"draft"}
      [] OTHER -> {}

allowed_transitions(s) ==
    CASE s = "draft" -> {"open"}
      [] s = "open" -> {"on_hold", "closed"}
      [] s = "on_hold" -> {"open", "closed"}
      [] s = "closed" -> {"draft"}
      [] OTHER -> {}

can_transition_to(s, target_state) == target_state \in allowed_transitions(s)

\* A hook returns (success, error_message) and may have mutated vals in place:
\* the record carries the dict as the hook leaves it.
HookOk(v) == [ok |-> TRUE, msg |-> None, vals |-> v]
HookFail(m, v) == [ok |-> FALSE, msg |-> m, vals |-> v]

\* the value the hooks read as "the responsible lawyer"
Responsible(c, v) ==
    Get(v, "responsible_employee_id",
        IF c.responsible_employee_id # 0 THEN c.responsible_employee_id ELSE 0)

CaseState_on_enter(c, v) == HookOk(v)

CaseState_on_exit(c, v) == HookOk(v)

CaseState_validate(c, v) == HookOk(v)

\* mutant: only the lawyer already on the case counts
DraftState_on_exit_CaseOnly(c, v) ==
    IF c.responsible_employee_id = 0
    THEN HookFail(<<"Debe asignar un abogado responsable antes de abrir el caso.">>, v)
    ELSE HookOk(v)

DraftState_on_exit(c, v) ==
    IF Responsible(c, v) = 0
    THEN HookFail(<<"Debe asignar un abogado responsable antes de abrir el caso.">>, v)
    ELSE HookOk(v)

\* mutant: reopening a case leaves its close date in place
OpenState_on_enter_KeepsCloseDate(c, v, t) ==
    IF ~DateTruthy(c.open_date) /\ ~DateTruthy(Get(v, "open_date", NoDate))
    THEN HookOk(Set(v, "open_date", DateObj(t)))
    ELSE HookOk(v)

OpenState_on_enter(c, v, t) ==
    LET v1 == IF ~DateTruthy(c.open_date) /\ ~DateTruthy(Get(v, "open_date", NoDate))
              THEN Set(v, "open_date", DateObj(t))
              ELSE v
        v2 == IF Get(v1, "state", "") = "open"
              THEN SetDefault(v1, "close_date", NoDate)
              ELSE v1
    IN HookOk(v2)

\* mutant: the open state accepts a case without a responsible lawyer
OpenState_validate_NoCheck(c, v) == HookOk(v)

OpenState_validate(c, v) ==
    IF Responsible(c, v) = 0
    THEN HookFail(<<"Un caso abierto debe tener un abogado responsable asignado.">>, v)
    ELSE HookOk(v)

OnHoldState_on_enter(c, v) == HookOk(v)

OnHoldState_on_exit(c, v) == HookOk(v)

\* mutant: the duration is taken from the close date to the open date
ClosedState_on_enter_Reversed(c, v, t) ==
    LET v1 == IF ~DateTruthy(Get(v, "close_date", NoDate))
              THEN Set(v, "close_date", DateObj(t))
              ELSE v
        close_date == from_string(v1["close_date"])
        v2 == IF DateTruthy(c.open_date) /\ DateTruthy(Get(v1, "close_date", NoDate))
              THEN Set(v1, "actual_duration_days", DeltaDays(c.open_date, close_date))
              ELSE v1
    IN HookOk(v2)

ClosedState_on_enter(c, v, t) ==
    LET v1 == IF ~DateTruthy(Get(v, "close_date", NoDate))
              THEN Set(v, "close_date", DateObj(t))
              ELSE v
        close_date == IF IsStr(v1["close_date"])
                      THEN from_string(v1["close_date"])
                      ELSE v1["close_date"]
        open_date == IF IsStr(c.open_date) THEN from_string(c.open_date) ELSE c.open_date
        v2 == IF DateTruthy(c.open_date) /\ DateTruthy(Get(v1, "close_date", NoDate))
              THEN Set(v1, "actual_duration_days", DeltaDays(close_date, open_date))
              ELSE v1
    IN HookOk(v2)

ClosedState_on_exit(c, v) == HookOk(v)

\* mutant: closing without an outcome records the outcome 'settled'
ClosedState_validate_DefaultsOutcome(c, v) == HookOk(SetDefault(v, "case_outcome", "settled"))

\* reads case_outcome only to log a warning; never blocks
ClosedState_validate(c, v) == HookOk(v)

\* dispatch on the state object
on_exit(s, c, v) ==
    CASE s = "draft" -> DraftState_on_exit(c, v)
      [] s = "open" -> CaseState_on_exit(c, v)
      [] s = "on_hold" -> OnHoldState_on_exit(c, v)
      [] s = "closed" -> ClosedState_on_exit(c, v)

on_enter(s, c, v, t) ==
    CASE s = "draft" -> CaseState_on_enter(c, v)
      [] s = "open" -> OpenState_on_enter(c, v, t)
      [] s = "on_hold" -> OnHoldState_on_enter(c, v)
      [] s = "closed" -> ClosedState_on_enter(c, v, t)

validate_state(s, c, v) ==
    CASE s = "draft" -> CaseState_validate(c, v)
      [] s = "open" -> OpenState_validate(c, v)
      [] s = "on_hold" -> CaseState_validate(c, v)
      [] s = "closed" -> ClosedState_validate(c, v)

(***************************************************************************)
(* CaseStateMachine.transition(case, old_state, new_state, vals)           *)
(* returns (success, error_message, vals); `hooks` lists the hooks it ran. *)
(***************************************************************************)
Ret(s, m, v, h) == [success |-> s, error_msg |-> m, vals |-> v, hooks |-> h]

\* lines 271-310: the path taken when old_state differs from new_state
transition_checked(c, old, new, v, t) ==
    IF old \notin STATES
    THEN Ret(FALSE, <<"Estado actual invalido: %s", old>>, v, <<>>)
    ELSE IF new \notin STATES
    THEN Ret(FALSE, <<"Estado destino invalido: %s", new>>, v, <<>>)
    ELSE IF ~can_transition_to(old, new)
    THEN Ret(FALSE, <<"Transicion de estado no permitida: %s -> %s", old, new>>, v, <<>>)
    ELSE
    LET x == on_exit(old, c, v)
        hx == <<<<old, "on_exit">>>>
    IN IF ~x.ok THEN Ret(FALSE, x.msg, x.vals, hx)
       ELSE
       LET e == on_enter(new, c, x.vals, t)
           he == Append(hx, <<new, "on_enter">>)
       IN IF ~e.ok THEN Ret(FALSE, e.msg, e.vals, he)
          ELSE
          LET w == validate_state(new, c, e.vals)
              hw == Append(he, <<new, "validate">>)
          IN IF ~w.ok THEN Ret(FALSE, w.msg, w.vals, hw)
             ELSE Ret(TRUE, None, w.vals, hw)

\* mutant: a state name the registry does not know is let through
transition_AnyName(c, old, new, v, t) ==
    IF old = new \/ old \notin STATES \/ new \notin STATES
    THEN Ret(TRUE, None, v, <<>>)
    ELSE transition_checked(c, old, new, v, t)

\* mutant: the no-op shortcut for old_state = new_state is missing
transition_NoShortcut(c, old, new, v, t) == transition_checked(c, old, new, v, t)

transition(c, old, new, v, t) ==
    IF old = new THEN Ret(TRUE, None, v, <<>>)
    ELSE transition_checked(c, old, new, v, t)

(***************************************************************************)
(* Specification SpecSM: CaseStateMachine.transition on every input        *)
(***************************************************************************)
NoResult == [success |-> FALSE, error_msg |-> None]

\* the cases transition is called with: the caller passes old_state = case.state
SMCases(old) ==
    {[EmptyCase EXCEPT !.id = 1, !.state = old,
                       !.responsible_employee_id = r, !.open_date = od] :
        r \in {0} \cup LawyerIds,
        od \in {NoDate} \cup {DateObj(d) : d \in Days}}

\* the change-sets transition is called with: the dict names the new state
\* (new_state = vals['state'], as LawCase.write reads it) or leaves it out
SMVals(new) ==
    Ext(Ext(Ext(Ext({EmptyVals},
        "state", {new}),
        "responsible_employee_id", {0} \cup LawyerIds),
        "open_date", {NoDate} \cup {DateObj(d) : d \in Days}),
        "close_date", {NoDate} \cup {DateObj(d) : d \in Days} \cup {DateStr(d) : d \in Days})

InitSM ==
    /\ old_state \in StateNames
    /\ new_state \in StateNames
    /\ case \in SMCases(old_state)
    /\ case_in = case
    /\ today \in Days
    /\ vals \in SMVals(new_state)
    /\ vals_in = vals
    /\ result = NoResult
    /\ hooks = <<>>
    /\ log = <<>>
    /\ calls = "none"
    /\ NewManager
    /\ NewServices
    /\ NewEnv

\* The caller invokes transition on its dict; calling again passes the dict as
\* the previous call left it.
Transition ==
    LET r == transition(case, old_state, new_state, vals, today)
    IN /\ vals_in' = vals
       /\ vals' = r.vals
       /\ result' = [success |-> r.success, error_msg |-> r.error_msg]
       /\ hooks' = r.hooks
       /\ calls' = "transition"
       /\ case_in' = case
       /\ UNCHANGED <<case, old_state, new_state, today, log>>
       /\ UNCHANGED <<evvars, svcvars, envvars>>

NextSM == Transition

SpecSM == InitSM /\ [][NextSM]_vars

(***************************************************************************)
(* case_validation_service.py: the validators                              *)
(***************************************************************************)
\* case.state if case else 'draft'
CurrentState(c) == IF CaseTruthy(c) THEN c.state ELSE "draft"

VALID_TRANSITIONS(s) ==
    CASE s = "draft" -> {"open"}
      [] s = "open" -> {"on_hold", "closed"}
      [] s = "on_hold" -> {"open", "closed"}
      [] s = "closed" -> {"draft"}
      [] OTHER -> {}

\* mutant: the current state is read from the record even when there is none
StateTransitionValidator_validate_NoDefault(c, v) ==
    IF ~Has(v, "state") THEN TRUE
    ELSE c.state = v["state"] \/ v["state"] \in VALID_TRANSITIONS(c.state)

StateTransitionValidator_validate(c, v) ==
    IF ~Has(v, "state") THEN TRUE
    ELSE LET old == CurrentState(c)
             new == v["state"]
         IN IF old = new THEN TRUE
            ELSE new \in VALID_TRANSITIONS(old)

StateTransitionValidator_get_error_message(c, v) ==
    <<"Transicion de estado no valida: %s -> %s", CurrentState(c), v["state"]>>

\* mutant: only the lawyer already on the case counts
ResponsibleLawyerValidator_validate_CaseOnly(c, v) ==
    LET state == Get(v, "state", CurrentState(c))
        responsible == IF CaseTruthy(c) THEN c.responsible_employee_id ELSE 0
    IN ~(state = "open" /\ responsible = 0)

\* mutant: the rule looks at the proposed state only
ResponsibleLawyerValidator_validate_ProposedStateOnly(c, v) ==
    LET state == Get(v, "state", "draft")
        responsible == Get(v, "responsible_employee_id",
                           IF CaseTruthy(c) /\ c.responsible_employee_id # 0
                           THEN c.responsible_employee_id ELSE 0)
    IN ~(state = "open" /\ responsible = 0)

ResponsibleLawyerValidator_validate(c, v) ==
    LET state == Get(v, "state", CurrentState(c))
        responsible == Get(v, "responsible_employee_id",
                           IF CaseTruthy(c) /\ c.responsible_employee_id # 0
                           THEN c.responsible_employee_id ELSE 0)
    IN ~(state = "open" /\ responsible = 0)

ResponsibleLawyerValidator_get_error_message ==
    <<"Asigna un abogado responsable para abrir el caso.">>

\* the condition under which ClientRoleValidator logs its warning
ClientRoleValidator_warns(c, v) ==
    LET client_role == Get(v, "client_role", IF CaseTruthy(c) THEN c.client_role ELSE "")
        state == Get(v, "state", CurrentState(c))
    IN state = "open" /\ client_role = ""

\* mutant: a missing client role blocks the opening
ClientRoleValidator_validate_Blocking(c, v) == ~ClientRoleValidator_warns(c, v)

\* logs a warning when opening without a client role; never blocks
ClientRoleValidator_validate(c, v) == TRUE

\* mutant: the recovery is compared with the claim only when the change-set
\* carries both amounts
FinancialDataValidator_validate_ProposedOnly(c, v) ==
    LET claim == Get(v, "estimated_amount_claim", 0)
        recovery == Get(v, "estimated_amount_recovery", 0)
        costs == Get(v, "estimated_legal_costs",
                     IF CaseTruthy(c) THEN c.estimated_legal_costs ELSE 0)
    IN IF recovery > claim /\ claim > 0 THEN FALSE
       ELSE IF costs < 0 THEN FALSE
       ELSE IF claim < 0 THEN FALSE
       ELSE TRUE

\* `x or 0` of an amount: an empty amount is 0 already
FinancialDataValidator_validate(c, v) ==
    LET claim == Get(v, "estimated_amount_claim",
                     IF CaseTruthy(c) THEN c.estimated_amount_claim ELSE 0)
        recovery == Get(v, "estimated_amount_recovery",
                        IF CaseTruthy(c) THEN c.estimated_amount_recovery ELSE 0)
        costs == Get(v, "estimated_legal_costs",
                     IF CaseTruthy(c) THEN c.estimated_legal_costs ELSE 0)
    IN IF recovery > claim /\ claim > 0 THEN FALSE
       ELSE IF costs < 0 THEN FALSE
       ELSE IF claim < 0 THEN FALSE
       ELSE TRUE

FinancialDataValidator_get_error_message ==
    <<"Datos financieros invalidos: la recuperacion estimada no puede exceder el monto reclamado, y los montos no pueden ser negativos.">>

\* the condition under which PracticeAreaValidator logs its warning
PracticeAreaValidator_warns(c, v) ==
    LET practice_area == Get(v, "practice_area_id",
                             IF CaseTruthy(c) /\ c.practice_area_id # 0
                             THEN c.practice_area_id ELSE 0)
        state == Get(v, "state", CurrentState(c))
    IN state = "open" /\ practice_area = 0

\* logs a warning when opening without a practice area; never blocks
PracticeAreaValidator_validate(c, v) == TRUE

\* mutant: the test for an empty role is missing, so an empty role is invalid
CounterpartyRoleValidator_validate_NoEmpty(c, v) ==
    LET client_role == Get(v, "client_role", IF CaseTruthy(c) THEN c.client_role ELSE "")
    IN client_role \in {"plaintiff", "defendant"}

CounterpartyRoleValidator_validate(c, v) ==
    LET client_role == Get(v, "client_role", IF CaseTruthy(c) THEN c.client_role ELSE "")
    IN ~(client_role # "" /\ client_role \notin {"plaintiff", "defendant"})

CounterpartyRoleValidator_get_error_message ==
    <<"Rol del cliente invalido. Debe ser 'Demandante' o 'Demandado'.">>

\* the condition under which ClosedCaseValidator logs its warning
ClosedCaseValidator_warns(c, v) ==
    LET state == Get(v, "state", CurrentState(c))
        outcome == Get(v, "case_outcome", IF CaseTruthy(c) THEN c.case_outcome ELSE "")
    IN state = "closed" /\ outcome = ""

\* logs a warning when closing without an outcome; never blocks
ClosedCaseValidator_validate(c, v) == TRUE

(***************************************************************************)
(* CaseValidationService                                                   *)
(***************************************************************************)
\* mutant: the lawyer rule is registered before the transition rule
validators_LawyerFirst ==
    <<"ResponsibleLawyerValidator", "StateTransitionValidator",
      "FinancialDataValidator", "CounterpartyRoleValidator",
      "ClientRoleValidator", "PracticeAreaValidator", "ClosedCaseValidator">>

\* self.validators, in registration order
validators ==
    <<"StateTransitionValidator", "ResponsibleLawyerValidator",
      "FinancialDataValidator", "CounterpartyRoleValidator",
      "ClientRoleValidator", "PracticeAreaValidator", "ClosedCaseValidator">>

\* validator.validate(case, vals)
validator_validate(n, c, v) ==
    CASE n = "StateTransitionValidator" -> StateTransitionValidator_validate(c, v)
      [] n = "ResponsibleLawyerValidator" -> ResponsibleLawyerValidator_validate(c, v)
      [] n = "FinancialDataValidator" -> FinancialDataValidator_validate(c, v)
      [] n = "CounterpartyRoleValidator" -> CounterpartyRoleValidator_validate(c, v)
      [] n = "ClientRoleValidator" -> ClientRoleValidator_validate(c, v)
      [] n = "PracticeAreaValidator" -> PracticeAreaValidator_validate(c, v)
      [] n = "ClosedCaseValidator" -> ClosedCaseValidator_validate(c, v)

\* validator.get_error_message()
validator_get_error_message(n, c, v) ==
    CASE n = "StateTransitionValidator" -> StateTransitionValidator_get_error_message(c, v)
      [] n = "ResponsibleLawyerValidator" -> ResponsibleLawyerValidator_get_error_message
      [] n = "FinancialDataValidator" -> FinancialDataValidator_get_error_message
      [] n = "CounterpartyRoleValidator" -> CounterpartyRoleValidator_get_error_message
      [] n = "ClientRoleValidator" ->
           <<"Se recomienda especificar el rol del cliente para analisis de precedentes.">>
      [] n = "PracticeAreaValidator" ->
           <<"Se recomienda especificar el area de practica.">>
      [] n = "ClosedCaseValidator" ->
           <<"Se recomienda especificar el resultado al cerrar el caso.">>

\* the warning a validator writes to the logger while it validates
validator_warning(n, c, v) ==
    CASE n = "ClientRoleValidator" /\ ClientRoleValidator_warns(c, v) ->
           <<<<"Opening case without client role - precedent analysis will be limited">>>>
      [] n = "PracticeAreaValidator" /\ PracticeAreaValidator_warns(c, v) ->
           <<<<"Opening case without practice area">>>>
      [] n = "ClosedCaseValidator" /\ ClosedCaseValidator_warns(c, v) ->
           <<<<"Closing case without setting outcome">>>>
      [] OTHER -> <<>>

\* the loop of CaseValidationService.validate from validator number i on;
\* ev lists the validators evaluated so far, w the warnings logged so far
RECURSIVE validate_from(_, _, _, _, _)
validate_from(i, c, v, ev, w) ==
    IF i > Len(validators)
    THEN [is_valid |-> TRUE, error_msg |-> None, evaluated |-> ev, warnings |-> w]
    ELSE LET n == validators[i]
             ev1 == Append(ev, n)
             w1 == w \o validator_warning(n, c, v)
         IN IF ~validator_validate(n, c, v)
            THEN [is_valid |-> FALSE,
                  error_msg |-> validator_get_error_message(n, c, v),
                  evaluated |-> ev1,
                  warnings |-> Append(w1, <<"Validation failed", n>>)]
            ELSE validate_from(i + 1, c, v, ev1, w1)

CaseValidationService_validate(c, v) == validate_from(1, c, v, <<>>, <<>>)

(***************************************************************************)
(* Specification SpecVal: a case is created and written, every change-set  *)
(* passing through CaseValidationService.validate first; an accepted one   *)
(* is stored by the ORM (super().create / super().write), a rejected one   *)
(* is dropped.                                                             *)
(***************************************************************************)
\* sample values of the fields
PracticeAreaIds == {3}

\* the change-sets offered to the service under SpecVal: state, lawyer,
\* client role
ValVals ==
    Ext(Ext(Ext({EmptyVals},
        "state", StateNames),
        "responsible_employee_id", {0} \cup LawyerIds),
        "client_role", {"", "plaintiff", "defendant", "judge"})

\* the change-sets offered under SpecFin: the financial estimates, with or
\* without a (never legal) move from draft to closed
FinancialVals ==
    Ext(Ext(Ext(Ext({EmptyVals},
        "state", {"closed"}),
        "estimated_amount_claim", {-1, 0, 500, 1000}),
        "estimated_amount_recovery", {800, 1500}),
        "estimated_legal_costs", {-1, 50})

\* change-sets about the advisory fields, opening or closing the case or not
AdvisoryVals ==
    Ext(Ext(Ext(Ext(Ext({EmptyVals},
        "state", {"open", "closed"}),
        "responsible_employee_id", LawyerIds),
        "client_role", {"defendant"}),
        "practice_area_id", {0} \cup PracticeAreaIds),
        "case_outcome", {"", "won"})

\* change-sets that break several rules at once
MixedVals ==
    Ext(Ext(Ext(Ext({EmptyVals},
        "state", {"open", "closed"}),
        "responsible_employee_id", {0}),
        "estimated_legal_costs", {-1}),
        "client_role", {"judge"})

\* the change-sets offered under SpecAdv
ChainVals == AdvisoryVals \cup MixedVals

\* models.Model.write: the record with the fields of the change-set stored
orm_write(c, v) == [f \in DOMAIN c |-> IF f \in DOMAIN v THEN v[f] ELSE c[f]]

\* models.Model.create: a new record, state defaulting to 'draft'
orm_create(v) == orm_write([EmptyCase EXCEPT !.id = 1, !.state = "draft"], v)

NoValidation == [is_valid |-> FALSE, error_msg |-> None]

InitVal ==
    /\ case = EmptyCase
    /\ case_in = EmptyCase
    /\ old_state = "draft"
    /\ new_state = "draft"
    /\ today = 1
    /\ vals = EmptyVals
    /\ vals_in = EmptyVals
    /\ result = NoValidation
    /\ hooks = <<>>
    /\ log = <<>>
    /\ calls = "none"
    /\ NewManager
    /\ NewServices
    /\ NewEnv

ValidatedCreate(v) ==
    /\ ~CaseTruthy(case)
    /\ LET r == CaseValidationService_validate(case, v)
       IN /\ result' = [is_valid |-> r.is_valid, error_msg |-> r.error_msg]
          /\ hooks' = r.evaluated
          /\ log' = r.warnings
          /\ case' = IF r.is_valid THEN orm_create(v) ELSE case
    /\ case_in' = case
    /\ vals' = v
    /\ vals_in' = v
    /\ calls' = "create"
    /\ UNCHANGED <<old_state, new_state, today>>
    /\ UNCHANGED <<evvars, svcvars, envvars>>

ValidatedWrite(v) ==
    /\ CaseTruthy(case)
    /\ LET r == CaseValidationService_validate(case, v)
       IN /\ result' = [is_valid |-> r.is_valid, error_msg |-> r.error_msg]
          /\ hooks' = r.evaluated
          /\ log' = r.warnings
          /\ case' = IF r.is_valid THEN orm_write(case, v) ELSE case
    /\ case_in' = case
    /\ vals' = v
    /\ vals_in' = v
    /\ calls' = "write"
    /\ UNCHANGED <<old_state, new_state, today>>
    /\ UNCHANGED <<evvars, svcvars, envvars>>

NextVal ==
    \/ \E v \in ValVals : ValidatedCreate(v)
    \/ \E v \in ValVals : ValidatedWrite(v)

SpecVal == InitVal /\ [][NextVal]_vars

\* the same service, offered the financial change-sets
NextFin ==
    \/ \E v \in FinancialVals : ValidatedCreate(v)
    \/ \E v \in FinancialVals : ValidatedWrite(v)

SpecFin == InitVal /\ [][NextFin]_vars

\* the same service, offered the advisory and the rule-breaking change-sets
NextAdv ==
    \/ \E v \in ChainVals : ValidatedCreate(v)
    \/ \E v \in ChainVals : ValidatedWrite(v)

SpecAdv == InitVal /\ [][NextAdv]_vars

(***************************************************************************)
(* CaseEventManager and the observers (services/case_event_manager.py,     *)
(* services/observers).  An observer is an instance [cls, id] of an        *)
(* observer class; what its handle routine does to the case is not         *)
(* modelled, only that it ran and whether it raised.                       *)
(***************************************************************************)
BaseObserver == "CaseEventObserver"

BuiltinObservers ==
    {"FollowerObserver", "NotificationObserver", "DeadlineObserver",
     "AuditLogObserver"}

ObserverClasses == BuiltinObservers \cup {BaseObserver}

\* the observer objects a caller may hold: one of each class, and a second
\* audit-log observer
ObserverInstances ==
    {[cls |-> c, id |-> 1] : c \in ObserverClasses}
    \cup {[cls |-> "AuditLogObserver", id |-> 2]}

\* an object that is no CaseEventObserver
NotAnObserver == [cls |-> "object", id |-> 1]

\* isinstance(obs, observer_class): every observer class derives from
\* CaseEventObserver and from nothing else
IsInstance(o, observer_class) ==
    /\ o.cls \in ObserverClasses
    /\ (o.cls = observer_class \/ observer_class = BaseObserver)

\* the event types of the convenience constructors
EventTypes ==
    {"case_created", "state_changed", "case_closed", "case_overdue",
     "case_approaching_deadline", "lawyer_assigned", "case_updated"}

\* the event types notify is offered
SampleEvents == {"case_created", "case_closed", "case_updated"}

\* an object that is no CaseEvent
NotAnEvent == "not_an_event"

\* observer.get_priority()
get_priority(cls) ==
    CASE cls = "FollowerObserver" -> 10
      [] cls = "NotificationObserver" -> 40
      [] cls = "DeadlineObserver" -> 60
      [] cls = "AuditLogObserver" -> 80
      [] OTHER -> 50

\* observer.can_handle(event), when it returns
can_handle(cls, event_type) ==
    CASE cls = "FollowerObserver" ->
           event_type \in {"case_created", "lawyer_assigned", "case_updated"}
      [] cls = "NotificationObserver" ->
           event_type \in {"case_created", "state_changed", "case_closed",
                           "case_overdue", "case_approaching_deadline",
                           "lawyer_assigned"}
      [] cls = "DeadlineObserver" ->
           event_type \in {"case_created", "state_changed", "case_updated",
                           "case_overdue", "case_approaching_deadline"}
      [] OTHER -> TRUE

\* the ways an observer may fail on an event: its can_handle raises, or its
\* handle raises; "" when it does neither
FaultKinds == {"", "can_handle", "handle"}

\* observer.handle(event) raises: the fault of this call, or the base class,
\* whose handle raises NotImplementedError
handle_raises(o, fault) == fault = "handle" \/ o.cls = BaseObserver

\* mutant: the list is left in the order of the appends
list_sort_NotSorted(s) == s

\* list.sort(key=lambda x: x[0]): a stable sort on the priority
RECURSIVE list_sort(_)
list_sort(s) ==
    IF s = <<>> THEN <<>>
    ELSE LET sorted == list_sort(SubSeq(s, 1, Len(s) - 1))
             e == s[Len(s)]
             k == Cardinality({i \in DOMAIN sorted : sorted[i][1] <= e[1]})
         IN SubSeq(sorted, 1, k) \o <<e>> \o SubSeq(sorted, k + 1, Len(sorted))

\* mutant: only the first observer of the class is removed
unregister_filter_FirstOnly(obs, observer_class) ==
    LET hits == {i \in DOMAIN obs : IsInstance(obs[i][2], observer_class)}
    IN IF hits = {} THEN obs
       ELSE LET first == CHOOSE i \in hits : \A j \in hits : i <= j
            IN SubSeq(obs, 1, first - 1) \o SubSeq(obs, first + 1, Len(obs))

\* the list comprehension of unregister_observer
unregister_filter(obs, observer_class) ==
    SelectSeq(obs, LAMBDA e : ~IsInstance(e[2], observer_class))

\* mutant: no try/except around the observer, the first exception leaves
\* the loop and notify
RECURSIVE notify_from_NoIsolation(_, _, _, _, _)
notify_from_NoIsolation(i, obs, event_type, fault, h) ==
    IF i > Len(obs) THEN [handled |-> h, returned |-> "normal"]
    ELSE LET o == obs[i][2]
         IN IF fault[o] = "can_handle"
            THEN [handled |-> h, returned |-> "raised"]
            ELSE IF ~can_handle(o.cls, event_type)
            THEN notify_from_NoIsolation(i + 1, obs, event_type, fault, h)
            ELSE IF handle_raises(o, fault[o])
            THEN [handled |-> Append(h, o), returned |-> "raised"]
            ELSE notify_from_NoIsolation(i + 1, obs, event_type, fault, Append(h, o))

\* the loop of notify from entry i of the registry on; h lists the observers
\* whose handle was called so far.  An exception of can_handle or handle is
\* caught and logged, and the loop goes on with the next entry.
RECURSIVE notify_from(_, _, _, _, _)
notify_from(i, obs, event_type, fault, h) ==
    IF i > Len(obs) THEN [handled |-> h, returned |-> "normal"]
    ELSE LET o == obs[i][2]
         IN IF fault[o] = "can_handle"
            THEN notify_from(i + 1, obs, event_type, fault, h)
            ELSE IF ~can_handle(o.cls, event_type)
            THEN notify_from(i + 1, obs, event_type, fault, h)
            ELSE IF handle_raises(o, fault[o])
            THEN notify_from(i + 1, obs, event_type, fault, Append(h, o))
            ELSE notify_from(i + 1, obs, event_type, fault, Append(h, o))

(***************************************************************************)
(* Specification SpecEv: observers are registered with and unregistered    *)
(* from one CaseEventManager and events are notified through it.           *)
(***************************************************************************)
\* the observers of the registry, as a set
Registered == {observers[i][2] : i \in DOMAIN observers}

NoFaults == [o \in Registered |-> ""]

\* the failures notify is tried with: none, or one observer failing in its
\* can_handle or in its handle (a base-class observer fails besides)
FaultChoices ==
    {NoFaults} \cup
    {[o \in Registered |-> IF o = bad THEN k ELSE ""] :
        bad \in Registered, k \in FaultKinds \ {""}}

\* register_observer(observer)
register_observer(observer) ==
    /\ Len(observers) < MaxObservers
    /\ IF ~IsInstance(observer, BaseObserver)
       THEN /\ returned' = "raised"
            /\ UNCHANGED <<observers, reg_order>>
       ELSE /\ observers' = list_sort(Append(observers,
                                <<get_priority(observer.cls), observer>>))
            /\ reg_order' = Append(reg_order, observer)
            /\ returned' = "normal"
    /\ calls' = "register_observer"
    /\ event' = ""
    /\ faults' = EmptyVals
    /\ handled' = <<>>
    /\ UNCHANGED <<casevars, manager, svcvars, envvars>>

\* unregister_observer(observer_class)
unregister_observer(observer_class) ==
    /\ observers' = unregister_filter(observers, observer_class)
    /\ reg_order' = SelectSeq(reg_order, LAMBDA o : ~IsInstance(o, observer_class))
    /\ returned' = "normal"
    /\ calls' = "unregister_observer"
    /\ event' = ""
    /\ faults' = EmptyVals
    /\ handled' = <<>>
    /\ UNCHANGED <<casevars, manager, svcvars, envvars>>

\* notify(event), the observers failing on the event as fault says
notify(event_type, fault) ==
    /\ event' = event_type
    /\ IF event_type \notin EventTypes
       THEN /\ returned' = "raised"
            /\ handled' = <<>>
            /\ faults' = NoFaults
       ELSE LET r == notify_from(1, observers, event_type, fault, <<>>)
            IN /\ returned' = r.returned
               /\ handled' = r.handled
               /\ faults' = fault
    /\ calls' = "notify"
    /\ UNCHANGED <<observers, reg_order>>
    /\ UNCHANGED <<casevars, manager, svcvars, envvars>>

NextEv ==
    \/ \E o \in ObserverInstances \cup {NotAnObserver} : register_observer(o)
    \/ \E c \in ObserverClasses : unregister_observer(c)
    \/ \E e \in SampleEvents : \E f \in FaultChoices : notify(e, f)
    \/ notify(NotAnEvent, NoFaults)

SpecEv == InitVal /\ [][NextEv]_vars

(***************************************************************************)
(* Specification SpecInst: callers that obtain the manager through         *)
(* CaseEventManager.get_instance                                           *)
(***************************************************************************)
\* get_instance(env) returns cls(env): a manager object of its own, with an
\* empty observer list, which the caller works with from then on.  reg_order
\* keeps the observers registered through the managers obtained so far.
get_instance ==
    /\ manager < MaxManagers
    /\ manager' = manager + 1
    /\ observers' = <<>>
    /\ event' = ""
    /\ faults' = EmptyVals
    /\ handled' = <<>>
    /\ returned' = "normal"
    /\ calls' = "get_instance"
    /\ UNCHANGED <<casevars, reg_order, svcvars, envvars>>

\* the observers the callers register
InstObservers ==
    {[cls |-> "FollowerObserver", id |-> 1], [cls |-> "AuditLogObserver", id |-> 1]}

NextInst ==
    \/ get_instance
    \/ \E o \in InstObservers : register_observer(o)
    \/ \E e \in {"case_created", "case_updated"} : notify(e, NoFaults)

SpecInst == InitVal /\ [][NextInst]_vars

(***************************************************************************)
(* LawCase.create and LawCase.write (models/law_case.py) on one case.      *)
(***************************************************************************)
\* the law.case.stage records: stage 1 is an ordinary stage, stage 2 a
\* closing stage
StageIds == {1, 2}

\* new_stage.is_closed_stage; the empty recordset reads False
is_closed_stage(stage_id) == stage_id = 2

\* what ir.sequence.next_by_code('law.case') returns: the next number, or
\* False ("") when no sequence is configured
SequenceResults == {"LC0001", ""}

\* the change-sets LawCase.create is called with
CreateVals ==
    Ext(Ext({EmptyVals},
        "code", {"", "LC/X"}),
        "responsible_employee_id", LawyerIds)

\* the change-sets LawCase.write is called with
WriteVals ==
    Ext(Ext(Ext(Ext({EmptyVals},
        "state", STATES),
        "stage_id", StageIds),
        "code", {"LC/X"}),
        "responsible_employee_id", LawyerIds)

\* _compute_actual_duration, recomputed when the dates are written
compute_actual_duration(c) ==
    [c EXCEPT !.actual_duration_days =
        IF DateTruthy(c.open_date) /\ DateTruthy(c.close_date)
        THEN DeltaDays(from_string(c.close_date), from_string(c.open_date))
        ELSE 0]

WriteRaise(m, v) == [raised |-> TRUE, error_msg |-> m, vals |-> v]

\* the body of `for case in self` under `if 'state' in vals`
write_state(c, v, t) ==
    LET old == c.state
        new == v["state"]
    IN IF new = "open" /\ c.responsible_employee_id = 0
       THEN WriteRaise(<<"Asigna un abogado responsable para abrir el caso">>, v)
       ELSE IF new = "closed" /\ old \notin {"open", "on_hold"}
       THEN WriteRaise(<<"El caso no esta abierto.">>, v)
       ELSE LET v1 == IF new = "closed" THEN Set(v, "close_date", DateObj(t)) ELSE v
                v2 == IF new = "open" /\ ~DateTruthy(Get(v1, "open_date", NoDate))
                      THEN Set(v1, "open_date", DateObj(t)) ELSE v1
                v3 == IF new = "draft"
                      THEN Set(Set(v2, "open_date", NoDate), "close_date", NoDate)
                      ELSE v2
            IN [raised |-> FALSE, error_msg |-> None, vals |-> v3]

\* the block under `if 'stage_id' in vals`
write_stage(v, t) ==
    IF Has(v, "stage_id") /\ is_closed_stage(v["stage_id"])
    THEN Set(Set(v, "state", "closed"), "close_date", DateObj(t))
    ELSE v

\* LawCase.write on the case: the checks, the stage block, super().write and
\* the recomputation of the stored duration; a UserError stores nothing
write(c, v, t) ==
    LET r == IF Has(v, "state") THEN write_state(c, v, t)
             ELSE [raised |-> FALSE, error_msg |-> None, vals |-> v]
    IN IF r.raised
       THEN [success |-> FALSE, error_msg |-> r.error_msg, vals |-> r.vals, case |-> c]
       ELSE LET v1 == write_stage(r.vals, t)
            IN [success |-> TRUE, error_msg |-> None, vals |-> v1,
                case |-> compute_actual_duration(orm_write(c, v1))]

\* LawCase.create of one case: the code is drawn from the sequence unless
\* the values carry one
create(v, seq) ==
    LET code == IF seq # "" THEN seq ELSE "/"
        v1 == IF Get(v, "code", "") = "" THEN Set(v, "code", code) ELSE v
    IN [vals |-> v1, case |-> compute_actual_duration(orm_create(v1))]

(***************************************************************************)
(* Specification SpecCase: a case is created through LawCase.create and    *)
(* then written through LawCase.write.                                     *)
(***************************************************************************)
LawCase_create(v, seq) ==
    /\ ~CaseTruthy(case)
    /\ LET r == create(v, seq)
       IN /\ case' = r.case
          /\ vals' = r.vals
    /\ result' = [success |-> TRUE, error_msg |-> None]
    /\ case_in' = case
    /\ vals_in' = v
    /\ calls' = "LawCase.create"
    /\ UNCHANGED <<old_state, new_state, today, hooks, log>>
    /\ UNCHANGED <<evvars, svcvars, envvars>>

LawCase_write(v) ==
    /\ CaseTruthy(case)
    /\ LET r == write(case, v, today)
       IN /\ case' = r.case
          /\ vals' = r.vals
          /\ result' = [success |-> r.success, error_msg |-> r.error_msg]
    /\ case_in' = case
    /\ vals_in' = v
    /\ calls' = "LawCase.write"
    /\ UNCHANGED <<old_state, new_state, today, hooks, log>>
    /\ UNCHANGED <<evvars, svcvars, envvars>>

NextCase ==
    \/ \E v \in CreateVals : \E seq \in SequenceResults : LawCase_create(v, seq)
    \/ \E v \in WriteVals : LawCase_write(v)

SpecCase == InitVal /\ [][NextCase]_vars

(***************************************************************************)
(* case_success_rate_service.py: the sub-scores                            *)
(***************************************************************************)
\* law_case.py lines 48-62: the values the two selection fields can store
\* ("" stands for an unset field)
EvidenceStrengths == {"", "weak", "moderate", "strong", "conclusive"}
CaseStrengths == {"", "very_weak", "weak", "moderate", "strong", "very_string"}

\* dict.get(key, 0) on a score map
MapGet(m, k) == IF k \in DOMAIN m THEN m[k] ELSE 0

DefaultEvidenceScores ==
    [weak |-> 10, moderate |-> 40, strong |-> 70, conclusive |-> 90]

DefaultStrengthScores ==
    [very_weak |-> 10, weak |-> 30, moderate |-> 50, strong |-> 75, very_strong |-> 95]

PenalEvidenceScores ==
    [weak |-> 10, moderate |-> 45, strong |-> 80, conclusive |-> 95]

PenalStrengthScores ==
    [very_weak |-> 10, weak |-> 25, moderate |-> 50, strong |-> 70, very_strong |-> 90]

_compute_evidence_score(c, score_map) ==
    IF c.evidence_strength # "" THEN Num(MapGet(score_map, c.evidence_strength))
    ELSE Num(0)

_compute_strength_score(c, score_map) ==
    IF c.case_strength # "" THEN Num(MapGet(score_map, c.case_strength))
    ELSE Num(0)

_compute_precedent_score(c, weight) ==
    IF c.client_role # "" /\ c.precedent_count # 0
    THEN FMul(FMul(Frac(c.favorable_precedents_count, c.precedent_count), Num(100)), weight)
    ELSE Num(0)

\* lines 38-86.  The two repository queries are modelled by what they return:
\* lawyer.past_total and lawyer.past_won count the lawyer's closed won/lost
\* cases of the case's practice area, lawyer.active_cases the lawyer's open
\* cases other than this one.
WinRateAdjustment(won, total) ==
    LET win_rate == FMul(Frac(won, total), Num(100))
    IN IF FLe(Num(75), win_rate) THEN 15
       ELSE IF FLe(Num(50), win_rate) THEN 5
       ELSE IF FLt(win_rate, Num(30)) THEN -10
       ELSE -5

\* mutant: the workload penalty is applied from five active cases on
_compute_lawyer_score_PenaltyFromFive(c) ==
    LET lawyer == c.lawyer
        experienced_bonus == IF lawyer.years_of_experience * 2 < 20
                             THEN lawyer.years_of_experience * 2 ELSE 20
        history == IF c.practice_area.id # 0 /\ lawyer.past_total # 0
                   THEN WinRateAdjustment(lawyer.past_won, lawyer.past_total)
                   ELSE 0
        workload == IF lawyer.active_cases >= 5 THEN -15 ELSE 0
    IN IF lawyer.id = 0 THEN Num(50)
       ELSE FMax(Num(0), FMin(Num(100), Num(50 + experienced_bonus + history + workload)))

_compute_lawyer_score(c) ==
    LET lawyer == c.lawyer
        experienced_bonus == IF lawyer.years_of_experience * 2 < 20
                             THEN lawyer.years_of_experience * 2 ELSE 20
        history == IF c.practice_area.id # 0 /\ lawyer.past_total # 0
                   THEN WinRateAdjustment(lawyer.past_won, lawyer.past_total)
                   ELSE 0
        workload == IF lawyer.active_cases > 5 THEN -15 ELSE 0
    IN IF lawyer.id = 0 THEN Num(50)
       ELSE FMax(Num(0), FMin(Num(100), Num(50 + experienced_bonus + history + workload)))

(***************************************************************************)
(* case_success_rate_service.py: the strategies                            *)
(***************************************************************************)
\* The body the three score-based strategies share: each sub-score is added
\* and counted if it is truthy.  The record keeps the locals of compute.
Clamp(x) == FMax(Num(0), FMin(Num(100), x))

\* mutant: the sub-scores are summed, not averaged, and the result is not clamped
ScoreBased_SumUnclamped(name, c, evidence_map, strength_map, precedent_weight, w_case, w_lawyer) ==
    LET score == FAdd(FAdd(_compute_evidence_score(c, evidence_map),
                           _compute_strength_score(c, strength_map)),
                      _compute_precedent_score(c, precedent_weight))
        lawyer_score == _compute_lawyer_score(c)
        final_rate == FAdd(FMul(score, w_case), FMul(lawyer_score, w_lawyer))
    IN [strategy |-> name, strength_score |-> _compute_strength_score(c, strength_map),
        factors |-> 3, avg_score |-> score,
        lawyer_score |-> lawyer_score, final_rate |-> final_rate,
        returned |-> final_rate]

ScoreBased(name, c, evidence_map, strength_map, precedent_weight, w_case, w_lawyer) ==
    LET evidence_score == _compute_evidence_score(c, evidence_map)
        strength_score == _compute_strength_score(c, strength_map)
        precedent_score == _compute_precedent_score(c, precedent_weight)
        used == <<Truthy(evidence_score), Truthy(strength_score), Truthy(precedent_score)>>
        score == FAdd(FAdd(IF used[1] THEN evidence_score ELSE Num(0),
                           IF used[2] THEN strength_score ELSE Num(0)),
                      IF used[3] THEN precedent_score ELSE Num(0))
        factors == Cardinality({i \in 1..3 : used[i]})
        avg_score == IF factors # 0 THEN FDiv(score, Num(factors)) ELSE Num(0)
        lawyer_score == _compute_lawyer_score(c)
        final_rate == FAdd(FMul(avg_score, w_case), FMul(lawyer_score, w_lawyer))
    IN [strategy |-> name, strength_score |-> strength_score, factors |-> factors,
        avg_score |-> avg_score, lawyer_score |-> lawyer_score,
        final_rate |-> final_rate, returned |-> Clamp(final_rate)]

DefaultSuccessRateStrategy_compute(c) ==
    ScoreBased("DefaultSuccessRateStrategy", c, DefaultEvidenceScores,
               DefaultStrengthScores, Num(1), Frac(7, 10), Frac(3, 10))

\* mutant: the civil strategy weighs like the default strategy
CivilSuccessRateStrategy_compute_DefaultWeights(c) ==
    ScoreBased("CivilSuccessRateStrategy", c, DefaultEvidenceScores,
               DefaultStrengthScores, Num(1), Frac(7, 10), Frac(3, 10))

CivilSuccessRateStrategy_compute(c) ==
    ScoreBased("CivilSuccessRateStrategy", c, DefaultEvidenceScores,
               DefaultStrengthScores, Num(1), Frac(6, 10), Frac(4, 10))

PenalSuccessRateStrategy_compute(c) ==
    ScoreBased("PenalSuccessRateStrategy", c, PenalEvidenceScores,
               PenalStrengthScores, Frac(6, 10), Frac(75, 100), Frac(25, 100))

\* the two placeholder strategies return 50.0 whatever the case
Placeholder_compute(name, c) ==
    [strategy |-> name, strength_score |-> Num(0), factors |-> 0, avg_score |-> Num(0),
     lawyer_score |-> Num(0), final_rate |-> Num(50), returned |-> Num(50)]

StrategyClasses ==
    {"DefaultSuccessRateStrategy", "CivilSuccessRateStrategy", "PenalSuccessRateStrategy",
     "MLBasedSuccessRateStrategy", "ExternalServiceSuccessRateStrategy"}

Strategy_compute(cls, c) ==
    CASE cls = "DefaultSuccessRateStrategy" -> DefaultSuccessRateStrategy_compute(c)
      [] cls = "CivilSuccessRateStrategy" -> CivilSuccessRateStrategy_compute(c)
      [] cls = "PenalSuccessRateStrategy" -> PenalSuccessRateStrategy_compute(c)
      [] OTHER -> Placeholder_compute(cls, c)

(***************************************************************************)
(* case_success_rate_service.py: StrategyRegistry                          *)
(***************************************************************************)
\* Practice-area codes and names the registry is asked about ("" stands for
\* None and for the empty string, both falsy), and str.lower() on them.
CodeSamples ==
    {"CIV", "Civ", "civ", "CIVIL", "Civil", "civil",
     "PEN", "pen", "PENAL", "Penal", "penal", "LAB", "Lab", "lab", "Laboral", "laboral"}

str_lower(s) ==
    CASE s \in {"CIV", "Civ", "civ"} -> "civ"
      [] s \in {"CIVIL", "Civil", "civil"} -> "civil"
      [] s \in {"PEN", "pen"} -> "pen"
      [] s \in {"PENAL", "Penal", "penal"} -> "penal"
      [] s \in {"LAB", "Lab", "lab"} -> "lab"
      [] s \in {"Laboral", "laboral"} -> "laboral"
      [] OTHER -> s

\* dict.get(key): "" stands for None
RegistryGet(reg, k) == IF k \in DOMAIN reg THEN reg[k] ELSE ""

get_strategy(reg, practice_area_code) ==
    IF practice_area_code = "" THEN "DefaultSuccessRateStrategy"
    ELSE LET exact == RegistryGet(reg, practice_area_code)
             strategy_cls == IF exact = ""
                             THEN RegistryGet(reg, str_lower(practice_area_code))
                             ELSE exact
         IN IF strategy_cls # "" THEN strategy_cls ELSE "DefaultSuccessRateStrategy"

\* classes issubclass(_, BaseSuccessRateStrategy) accepts, and one it rejects
IsStrategyClass(cls) == cls \in StrategyClasses
NotAStrategy == "CaseValidationService"

\* mutant: the class is stored without the issubclass check
register_strategy_Unchecked(reg, code, strategy_class) ==
    [raised |-> FALSE, registry |-> Set(reg, code, strategy_class)]

register_strategy(reg, code, strategy_class) ==
    IF ~IsStrategyClass(strategy_class)
    THEN [raised |-> TRUE, registry |-> reg]
    ELSE [raised |-> FALSE, registry |-> Set(reg, code, strategy_class)]

(***************************************************************************)
(* case_success_rate_service.py: CaseSuccessRateService                    *)
(***************************************************************************)
CaseSuccessRateService_compute(reg, c) ==
    LET practice_area_code ==
            IF c.practice_area.id # 0
            THEN (IF c.practice_area.code # "" THEN c.practice_area.code
                  ELSE c.practice_area.name)
            ELSE ""
        strategy_cls == get_strategy(reg, practice_area_code)
    IN Strategy_compute(strategy_cls, c)

\* no case exists and none of the case services was called
NoCaseCall ==
    /\ case = EmptyCase
    /\ case_in = EmptyCase
    /\ old_state = "draft"
    /\ new_state = "draft"
    /\ today = 1
    /\ vals = EmptyVals
    /\ vals_in = EmptyVals
    /\ result = NoValidation
    /\ hooks = <<>>
    /\ log = <<>>
    /\ calls = "none"

(***************************************************************************)
(* Specification SpecScore: CaseSuccessRateService.compute on every case   *)
(***************************************************************************)
PracticeAreas ==
    {NoArea,
     [id |-> 3, code |-> "CIV", name |-> "Civil"],
     [id |-> 4, code |-> "PEN", name |-> "Penal"],
     [id |-> 5, code |-> "", name |-> "Penal"],
     [id |-> 6, code |-> "LAB", name |-> "Laboral"]}

\* the lawyer records of the scoring runs: none, a newcomer, a veteran with a
\* perfect record, an overloaded lawyer who lost every past case
ScoreLawyers ==
    {NoLawyer,
     [id |-> 7, years_of_experience |-> 0, past_total |-> 0, past_won |-> 0, active_cases |-> 0],
     [id |-> 8, years_of_experience |-> 12, past_total |-> 2, past_won |-> 2, active_cases |-> 0],
     [id |-> 9, years_of_experience |-> 0, past_total |-> 2, past_won |-> 0, active_cases |-> 6]}

\* law_case.py lines 286-335: precedent_count counts the precedents of the
\* practice area (0 without one), favorable_precedents_count those of them
\* that favour the client's role (0 without a role)
ScoreInputs ==
    {[evidence_strength |-> e, case_strength |-> s, client_role |-> r,
      precedent_count |-> n, favorable_precedents_count |-> f,
      practice_area |-> a, lawyer |-> l] :
        e \in EvidenceStrengths, s \in CaseStrengths, r \in {"", "plaintiff"},
        a \in PracticeAreas, l \in ScoreLawyers,
        n \in 0..MaxPrecedents, f \in 0..MaxPrecedents}

ConsistentCounts(c) ==
    /\ c.favorable_precedents_count <= c.precedent_count
    /\ c.practice_area.id = 0 => c.precedent_count = 0
    /\ c.client_role = "" => c.favorable_precedents_count = 0

InitScore ==
    /\ NoCaseCall
    /\ NewManager
    /\ registry = _REGISTRY
    /\ lookup = NoLookup
    /\ rate_in \in {c \in ScoreInputs : ConsistentCounts(c)}
    /\ rate = NoRate
    /\ analysis_in = NoAnalysisInput
    /\ analysis = NoAnalysis
    /\ NewEnv

\* the service computes the rate of the case it is handed
ComputeSuccessRate ==
    /\ rate' = CaseSuccessRateService_compute(registry, rate_in)
    /\ calls' = "compute"
    /\ UNCHANGED <<casevars, evvars, envvars, registry, lookup, rate_in, analysis_in, analysis>>

NextScore == ComputeSuccessRate

SpecScore == InitScore /\ [][NextScore]_vars

(***************************************************************************)
(* Specification SpecLawyer: the lawyer score on every lawyer record       *)
(***************************************************************************)
YearsSamples == {0, 3, 10, 12}
ActiveSamples == {0, 5, 6}

LawyerRecords ==
    {NoLawyer} \cup
    {[id |-> 7, years_of_experience |-> y, past_total |-> t, past_won |-> w,
      active_cases |-> a] :
        y \in YearsSamples, t \in 0..MaxPast, w \in 0..MaxPast, a \in ActiveSamples}

InitLawyer ==
    /\ NoCaseCall
    /\ NewManager
    /\ registry = _REGISTRY
    /\ lookup = NoLookup
    /\ rate_in \in {[NoRateInput EXCEPT !.lawyer = l, !.practice_area = a,
                                        !.evidence_strength = e] :
                        l \in {r \in LawyerRecords : r.past_won <= r.past_total},
                        a \in {NoArea, [id |-> 3, code |-> "CIV", name |-> "Civil"]},
                        e \in {"", "strong"}}
    /\ rate = NoRate
    /\ analysis_in = NoAnalysisInput
    /\ analysis = NoAnalysis
    /\ NewEnv

SpecLawyer == InitLawyer /\ [][NextScore]_vars

(***************************************************************************)
(* Specification SpecReg: the strategy registry under lookups and          *)
(* registrations at run time                                               *)
(***************************************************************************)
\* the codes strategies are registered against at run time, and the classes
RegisterCodes == {"", "lab", "LAB", "PEN"}
RegisterClasses == {"MLBasedSuccessRateStrategy", "DefaultSuccessRateStrategy", NotAStrategy}

GetStrategy(practice_area_code) ==
    /\ lookup' = [op |-> "get_strategy", code |-> practice_area_code, cls |-> "",
                  result |-> get_strategy(registry, practice_area_code), raised |-> FALSE]
    /\ calls' = "get_strategy"
    /\ UNCHANGED <<casevars, evvars, envvars, registry, rate_in, rate, analysis_in, analysis>>

RegisterStrategy(code, strategy_class) ==
    LET r == register_strategy(registry, code, strategy_class)
    IN /\ registry' = r.registry
       /\ lookup' = [op |-> "register_strategy", code |-> code, cls |-> strategy_class,
                     result |-> "", raised |-> r.raised]
       /\ calls' = "register_strategy"
       /\ UNCHANGED <<casevars, evvars, envvars, rate_in, rate, analysis_in, analysis>>

NextReg ==
    \/ \E code \in CodeSamples \cup {""} : GetStrategy(code)
    \/ \E code \in RegisterCodes, cls \in RegisterClasses : RegisterStrategy(code, cls)

InitReg ==
    /\ NoCaseCall
    /\ NewManager
    /\ NewServices
    /\ NewEnv

SpecReg == InitReg /\ [][NextReg]_vars

(***************************************************************************)
(* precedent_analysis_service.py: analyze_favorability                     *)
(***************************************************************************)
\* A recordset of precedents is the sequence of the favoured_party values of
\* its records ("" for an unset field); a record is named by its position.
FavouredParties == {"", "plaintiff", "defendant"}
ClientRoles == {"", "plaintiff", "defendant"}

Analysis(favorable, unfavorable, neutral, ratio) ==
    [favorable |-> favorable, unfavorable |-> unfavorable, neutral |-> neutral,
     favorable_count |-> Cardinality(favorable),
     unfavorable_count |-> Cardinality(unfavorable),
     neutral_count |-> Cardinality(neutral),
     favorable_ratio |-> ratio]

\* mutant: a precedent without a favoured party counts as unfavorable
analyze_favorability_UnsetUnfavorable(precedents, client_role) ==
    IF precedents = <<>> \/ client_role = ""
    THEN Analysis({}, {}, {}, Num(0))
    ELSE LET favorable == {p \in DOMAIN precedents : precedents[p] = client_role}
             unfavorable == {p \in DOMAIN precedents : precedents[p] # client_role}
             neutral == ((DOMAIN precedents) \ favorable) \ unfavorable
         IN Analysis(favorable, unfavorable, neutral,
                     FMul(Frac(Cardinality(favorable), Len(precedents)), Num(100)))

analyze_favorability(precedents, client_role) ==
    IF precedents = <<>> \/ client_role = ""
    THEN Analysis({}, {}, {}, Num(0))
    ELSE LET favorable == {p \in DOMAIN precedents : precedents[p] = client_role}
             unfavorable == {p \in DOMAIN precedents :
                                precedents[p] # "" /\ precedents[p] # client_role}
             neutral == ((DOMAIN precedents) \ favorable) \ unfavorable
             total == Len(precedents)
             ratio == IF total > 0
                      THEN FMul(Frac(Cardinality(favorable), total), Num(100))
                      ELSE Num(0)
         IN Analysis(favorable, unfavorable, neutral, ratio)

(***************************************************************************)
(* Specification SpecPrec: analyze_favorability on every recordset         *)
(***************************************************************************)
RECURSIVE Recordsets(_)
Recordsets(n) ==
    IF n = 0 THEN {<<>>}
    ELSE Recordsets(n - 1) \cup
         {Append(s, f) : s \in {r \in Recordsets(n - 1) : Len(r) = n - 1},
                         f \in FavouredParties}

InitPrec ==
    /\ NoCaseCall
    /\ NewManager
    /\ registry = _REGISTRY
    /\ lookup = NoLookup
    /\ rate_in = NoRateInput
    /\ rate = NoRate
    /\ analysis_in \in {[precedents |-> p, client_role |-> r] :
                           p \in Recordsets(MaxRecords), r \in ClientRoles}
    /\ analysis = NoAnalysis
    /\ NewEnv

AnalyzeFavorability ==
    /\ analysis' = analyze_favorability(analysis_in.precedents, analysis_in.client_role)
    /\ calls' = "analyze_favorability"
    /\ UNCHANGED <<casevars, evvars, envvars, registry, lookup, rate_in, rate, analysis_in>>

NextPrec == AnalyzeFavorability

SpecPrec == InitPrec /\ [][NextPrec]_vars

(***************************************************************************)
(* Specification SpecLife: the life of one case under successive calls of  *)
(* CaseStateMachine.transition, each successful change-set written back    *)
(***************************************************************************)
\* the change-set of a plain state change
StateChange(new) == Set(EmptyVals, "state", new)

\* the case after the caller asked for new and stored what a successful
\* transition returned; the case as it was after a rejected one
after_transition(c, new, t) ==
    LET r == transition(c, c.state, new, StateChange(new), t)
    IN IF r.success THEN orm_write(c, r.vals) ELSE c

\* the cases one successful transition leads to
Successors(c, t) ==
    {after_transition(c, new, t) : new \in
        {n \in STATES : transition(c, c.state, n, StateChange(n), t).success}}

\* the cases sequences of successful transitions lead to from the cases in S
RECURSIVE ReachableFrom(_, _)
ReachableFrom(S, t) ==
    LET N == S \cup UNION {Successors(c, t) : c \in S}
    IN IF N = S THEN S ELSE ReachableFrom(N, t)

InitLife ==
    /\ case \in {[EmptyCase EXCEPT !.id = 1, !.state = "draft",
                                   !.responsible_employee_id = r] :
                    r \in {0} \cup LawyerIds}
    /\ case_in = case
    /\ old_state = "draft"
    /\ new_state = "draft"
    /\ today = 1
    /\ vals = EmptyVals
    /\ vals_in = EmptyVals
    /\ result = NoResult
    /\ hooks = <<>>
    /\ log = <<>>
    /\ calls = "none"
    /\ NewManager
    /\ NewServices
    /\ NewEnv

\* the caller asks for a state and writes the change-set back on success
LifeTransition(new) ==
    LET r == transition(case, case.state, new, StateChange(new), today)
    IN /\ old_state' = case.state
       /\ new_state' = new
       /\ vals_in' = StateChange(new)
       /\ vals' = r.vals
       /\ result' = [success |-> r.success, error_msg |-> r.error_msg]
       /\ hooks' = r.hooks
       /\ case_in' = case
       /\ case' = after_transition(case, new, today)
       /\ calls' = "transition"
       /\ UNCHANGED <<today, log>>
       /\ UNCHANGED <<evvars, svcvars, envvars>>

\* a day passes
NextDay ==
    /\ today < MaxDay
    /\ today' = today + 1
    /\ calls' = "next_day"
    /\ UNCHANGED <<case, case_in, old_state, new_state, vals, vals_in, result, hooks, log>>
    /\ UNCHANGED <<evvars, svcvars, envvars>>

NextLife ==
    \/ \E new \in STATES : LifeTransition(new)
    \/ NextDay

SpecLife == InitLife /\ [][NextLife]_vars

(***************************************************************************)
(* Specification SpecCount: the precedent counts derived on the case       *)
(* (LawCase._compute_precedent_analysis) next to analyze_favorability      *)
(***************************************************************************)
\* law_case.py lines 309-336 on one case whose available_precedents are the
\* recordset and whose client_role is the role; False stored in an Integer
\* field reads 0
_compute_precedent_analysis(available_precedents, client_role) ==
    IF client_role = ""
    THEN [has_favorable_precedents |-> FALSE, favorable_precedents_count |-> 0,
          unfavorable_precedents_count |-> 0]
    ELSE IF Len(available_precedents) > 0
    THEN LET favorable == {p \in DOMAIN available_precedents :
                              available_precedents[p] = client_role}
             unfavorable == {p \in DOMAIN available_precedents :
                                available_precedents[p] # client_role}
         IN [has_favorable_precedents |-> Cardinality(favorable) > 0,
             favorable_precedents_count |-> Cardinality(favorable),
             unfavorable_precedents_count |-> Cardinality(unfavorable)]
    ELSE [has_favorable_precedents |-> FALSE, favorable_precedents_count |-> 0,
          unfavorable_precedents_count |-> 0]

\* the ORM recomputes the stored counts of the case
ComputePrecedentAnalysis ==
    /\ analysis' = _compute_precedent_analysis(analysis_in.precedents, analysis_in.client_role)
    /\ calls' = "_compute_precedent_analysis"
    /\ UNCHANGED <<casevars, evvars, envvars, registry, lookup, rate_in, rate, analysis_in>>

NextCount ==
    \/ AnalyzeFavorability
    \/ ComputePrecedentAnalysis

SpecCount == InitPrec /\ [][NextCount]_vars

(***************************************************************************)
(* Specification SpecAgree: the validation chain and the state machine on  *)
(* the same case and change-set                                            *)
(***************************************************************************)
\* the caller asks the validation service about its change-set
Validate ==
    LET r == CaseValidationService_validate(case, vals)
    IN /\ result' = [is_valid |-> r.is_valid, error_msg |-> r.error_msg]
       /\ hooks' = r.evaluated
       /\ log' = r.warnings
       /\ case_in' = case
       /\ vals_in' = vals
       /\ calls' = "validate"
       /\ UNCHANGED <<case, old_state, new_state, today, vals>>
       /\ UNCHANGED <<evvars, svcvars, envvars>>

NextAgree ==
    \/ Validate
    \/ Transition

SpecAgree == InitSM /\ [][NextAgree]_vars

(***************************************************************************)
(* Specification SpecReent: observers whose handle routine registers or    *)
(* unregisters an observer on the manager that is dispatching to them      *)
(***************************************************************************)
\* what a handle routine does to the manager the first time it runs:
\* nothing, register_observer(observer) or unregister_observer(observer_class)
NoReentry == [kind |-> "none", observer |-> NotAnObserver, observer_class |-> ""]

RegisterIn(o) == [kind |-> "register", observer |-> o, observer_class |-> ""]

UnregisterIn(c) == [kind |-> "unregister", observer |-> NotAnObserver, observer_class |-> c]

\* self._observers after the handle routine did op: register_observer
\* appends and sorts the list, unregister_observer builds a filtered list
reentry_observers(op, obs) ==
    CASE op.kind = "register" ->
           list_sort(Append(obs, <<get_priority(op.observer.cls), op.observer>>))
      [] op.kind = "unregister" -> unregister_filter(obs, op.observer_class)
      [] OTHER -> obs

\* the registration order after the handle routines that ran did what todo
\* says (at most one of them does anything)
reentry_order(todo, h, order) ==
    IF \E o \in DOMAIN todo : \E i \in DOMAIN h : h[i] = o
    THEN LET op == todo[CHOOSE o \in DOMAIN todo : TRUE]
         IN CASE op.kind = "register" -> Append(order, op.observer)
              [] op.kind = "unregister" ->
                   SelectSeq(order, LAMBDA o : ~IsInstance(o, op.observer_class))
              [] OTHER -> order
    ELSE order

\* the loop `for priority, observer in self._observers` of notify from
\* position i on.  iterated is the list object the loop runs over and
\* current the list self._observers is bound to; they are one object
\* (aliased) until unregister_observer rebinds self._observers to a new
\* list.  register_observer appends to and sorts the current list in place,
\* so while aliased the loop sees the entries move under its index.
RECURSIVE notify_reentrant(_, _, _, _, _, _, _)
notify_reentrant(i, iterated, current, aliased, event_type, todo, h) ==
    IF i > Len(iterated) THEN [handled |-> h, observers |-> current]
    ELSE LET o == iterated[i][2]
         IN IF ~can_handle(o.cls, event_type)
            THEN notify_reentrant(i + 1, iterated, current, aliased, event_type, todo, h)
            ELSE LET op == Get(todo, o, NoReentry)
                     changed == reentry_observers(op, current)
                     still == aliased /\ op.kind # "unregister"
                 IN notify_reentrant(i + 1,
                        IF still THEN changed ELSE iterated,
                        changed, still, event_type,
                        [k \in DOMAIN todo \ {o} |-> todo[k]], Append(h, o))

\* the observers the callers and the handle routines register
ReentObservers ==
    {[cls |-> "FollowerObserver", id |-> 1], [cls |-> "DeadlineObserver", id |-> 1],
     [cls |-> "AuditLogObserver", id |-> 1], [cls |-> "AuditLogObserver", id |-> 2]}

\* what the handle routines are tried with: none touches the manager, or one
\* registered observer registers an observer not yet registered or
\* unregisters a class
ReentryChoices ==
    {EmptyVals} \cup
    {[o \in {actor} |-> op] :
        actor \in Registered,
        op \in {RegisterIn(n) : n \in ReentObservers \ Registered}
               \cup {UnregisterIn(c) : c \in {"FollowerObserver", "AuditLogObserver"}}}

\* register_observer(observer) of an observer that is not registered yet
RegisterNew(observer) ==
    /\ observer \notin Registered
    /\ register_observer(observer)

\* notify(event) with handle routines that change the registry as todo says
ReentrantNotify(event_type, todo) ==
    /\ LET r == notify_reentrant(1, observers, observers, TRUE, event_type, todo, <<>>)
       IN /\ handled' = r.handled
          /\ observers' = r.observers
          /\ reg_order' = reentry_order(todo, r.handled, reg_order)
    /\ event' = event_type
    /\ faults' = NoFaults
    /\ returned' = "normal"
    /\ reentry' = todo
    /\ calls' = "notify"
    /\ UNCHANGED <<casevars, manager, svcvars, activities, recordset>>

NextReent ==
    \/ \E o \in ReentObservers : RegisterNew(o)
    \/ \E e \in {"case_created", "case_updated"} : \E t \in ReentryChoices :
          ReentrantNotify(e, t)

SpecReent == InitVal /\ [][NextReent]_vars

(***************************************************************************)
(* DeadlineObserver (services/observers/deadline_observer.py).  The        *)
(* reminders are the mail.activity records of the case whose summary holds *)
(* 'próximo a vencer'; n is their number.                                  *)
(***************************************************************************)
\* mail.activity.create of one reminder, unless the case is not open, has no
\* open date or no positive estimated duration
_schedule_deadline_reminder(c, n) ==
    IF ~DateTruthy(c.open_date) \/ c.state # "open" THEN n
    ELSE IF c.estimated_duration_months = 0 \/ c.estimated_duration_months <= 0 THEN n
    ELSE n + 1

\* search of the reminders of the case and unlink of what was found
_cancel_deadline_reminders(c, n) == 0

_reschedule_deadline_reminder(c, n) ==
    _schedule_deadline_reminder(c, _cancel_deadline_reminders(c, n))

\* DeadlineObserver.handle for the event types that concern the reminders;
\* new_values is the dict of the event
DeadlineObserver_handle(event_type, new_values, c, n) ==
    CASE event_type = "case_created" -> _schedule_deadline_reminder(c, n)
      [] event_type = "state_changed" ->
           LET new == Get(new_values, "state", "")
           IN IF new = "open" THEN _schedule_deadline_reminder(c, n)
              ELSE IF new = "closed" THEN _cancel_deadline_reminders(c, n)
              ELSE n
      [] event_type = "case_updated" ->
           IF Has(new_values, "estimated_duration_months")
           THEN _reschedule_deadline_reminder(c, n)
           ELSE n
      [] OTHER -> n

(***************************************************************************)
(* Specification SpecDeadline: one case goes through its states and has    *)
(* its estimate changed, and DeadlineObserver handles the event of each    *)
(* change                                                                  *)
(***************************************************************************)
\* the estimated durations, in months (0 is the unset field)
DurationSamples == {0, 1, 2}

InitDeadline ==
    /\ case \in {[EmptyCase EXCEPT !.id = 1, !.state = "draft",
                                   !.responsible_employee_id = 7,
                                   !.estimated_duration_months = m] :
                    m \in DurationSamples}
    /\ case_in = case
    /\ old_state = "draft"
    /\ new_state = "draft"
    /\ today = 1
    /\ vals = EmptyVals
    /\ vals_in = EmptyVals
    /\ result = NoResult
    /\ hooks = <<>>
    /\ log = <<>>
    /\ calls = "none"
    /\ NewManager
    /\ NewServices
    /\ NewEnv

\* a successful transition to new is written to the case, and the observer
\* handles create_state_changed_event(case, old_state, new_state)
StateChangedEvent(new) ==
    LET r == transition(case, case.state, new, StateChange(new), today)
        c == after_transition(case, new, today)
        n == DeadlineObserver_handle("state_changed", StateChange(new), c, activities)
    IN /\ r.success
       /\ n <= MaxActivities
       /\ old_state' = case.state
       /\ new_state' = new
       /\ vals_in' = StateChange(new)
       /\ vals' = r.vals
       /\ result' = [success |-> r.success, error_msg |-> r.error_msg]
       /\ hooks' = r.hooks
       /\ case_in' = case
       /\ case' = c
       /\ activities' = n
       /\ event' = "state_changed"
       /\ calls' = "DeadlineObserver.handle"
       /\ UNCHANGED <<today, log>>
       /\ UNCHANGED <<observers, reg_order, faults, handled, returned, manager>>
       /\ UNCHANGED <<svcvars, reentry, recordset>>

\* the change-sets of an update that is no state change
UpdateVals ==
    {Set(EmptyVals, "estimated_duration_months", m) : m \in DurationSamples}
    \cup {Set(EmptyVals, "code", "LC/X")}

\* the change-set v is written to the case, and the observer handles the
\* case_updated event that carries v as its new values
CaseUpdatedEvent(v) ==
    LET c == orm_write(case, v)
        n == DeadlineObserver_handle("case_updated", v, c, activities)
    IN /\ n <= MaxActivities
       /\ vals_in' = v
       /\ vals' = v
       /\ case_in' = case
       /\ case' = c
       /\ activities' = n
       /\ event' = "case_updated"
       /\ calls' = "DeadlineObserver.handle"
       /\ UNCHANGED <<old_state, new_state, today, result, hooks, log>>
       /\ UNCHANGED <<observers, reg_order, faults, handled, returned, manager>>
       /\ UNCHANGED <<svcvars, reentry, recordset>>

NextDeadline ==
    \/ \E new \in STATES : StateChangedEvent(new)
    \/ \E v \in UpdateVals : CaseUpdatedEvent(v)

SpecDeadline == InitDeadline /\ [][NextDeadline]_vars

(***************************************************************************)
(* Specification SpecRaise: CaseValidationService.validate with validators *)
(* that raise an exception                                                 *)
(***************************************************************************)
\* mutant: no try/except in the loop, the first exception ends the chain
\* and the change-set counts as rejected
RECURSIVE validate_raising_Abort(_, _, _, _, _, _)
validate_raising_Abort(i, c, v, raising, ev, w) ==
    IF i > Len(validators)
    THEN [is_valid |-> TRUE, error_msg |-> None, evaluated |-> ev, warnings |-> w]
    ELSE LET n == validators[i]
             ev1 == Append(ev, n)
         IN IF n \in raising
            THEN [is_valid |-> FALSE, error_msg |-> <<"Error in validator", n>>,
                  evaluated |-> ev1, warnings |-> w]
            ELSE LET w1 == w \o validator_warning(n, c, v)
                 IN IF ~validator_validate(n, c, v)
                    THEN [is_valid |-> FALSE,
                          error_msg |-> validator_get_error_message(n, c, v),
                          evaluated |-> ev1,
                          warnings |-> Append(w1, <<"Validation failed", n>>)]
                    ELSE validate_raising_Abort(i + 1, c, v, raising, ev1, w1)

\* the loop of CaseValidationService.validate from validator number i on,
\* the validators in raising raising an exception when they are called:
\* `except Exception` logs the error and continues with the next validator
RECURSIVE validate_raising(_, _, _, _, _, _)
validate_raising(i, c, v, raising, ev, w) ==
    IF i > Len(validators)
    THEN [is_valid |-> TRUE, error_msg |-> None, evaluated |-> ev, warnings |-> w]
    ELSE LET n == validators[i]
             ev1 == Append(ev, n)
         IN IF n \in raising
            THEN validate_raising(i + 1, c, v, raising, ev1, w)
            ELSE LET w1 == w \o validator_warning(n, c, v)
                 IN IF ~validator_validate(n, c, v)
                    THEN [is_valid |-> FALSE,
                          error_msg |-> validator_get_error_message(n, c, v),
                          evaluated |-> ev1,
                          warnings |-> Append(w1, <<"Validation failed", n>>)]
                    ELSE validate_raising(i + 1, c, v, raising, ev1, w1)

\* the change-sets offered under SpecRaise
RaiseVals ==
    Ext(Ext(Ext({EmptyVals},
        "state", {"open", "closed"}),
        "responsible_employee_id", {0} \cup LawyerIds),
        "estimated_amount_claim", {-1})

\* the validators that raise during one call: none, one, or the first two
RaisingChoices ==
    {{}} \cup {{validators[i]} : i \in DOMAIN validators}
    \cup {{validators[1], validators[2]}}

\* validate(case, vals) on the case as it is, the validators in raising
\* raising; nothing is written
ValidateRaising(v, raising) ==
    LET r == validate_raising(1, case, v, raising, <<>>, <<>>)
    IN /\ result' = [is_valid |-> r.is_valid, error_msg |-> r.error_msg,
                     raised |-> raising]
       /\ hooks' = r.evaluated
       /\ log' = r.warnings
       /\ case_in' = case
       /\ vals' = v
       /\ vals_in' = v
       /\ calls' = "validate"
       /\ UNCHANGED <<case, old_state, new_state, today>>
       /\ UNCHANGED <<evvars, svcvars, envvars>>

NextRaise ==
    \/ \E v \in RaiseVals : ValidatedCreate(v)
    \/ \E v \in RaiseVals : \E raising \in RaisingChoices : ValidateRaising(v, raising)

SpecRaise == InitVal /\ [][NextRaise]_vars

(***************************************************************************)
(* Specification SpecSet: LawCase.write on a recordset of several cases    *)
(***************************************************************************)
\* the loop `for case in self` under `if 'state' in vals` from case number
\* i on: the checks of each case in turn, on the dict the earlier turns
\* left; the first UserError leaves the loop and write
RECURSIVE write_loop(_, _, _, _)
write_loop(i, cs, v, t) ==
    IF i > Len(cs) THEN [raised |-> FALSE, error_msg |-> None, vals |-> v]
    ELSE LET r == write_state(cs[i], v, t)
         IN IF r.raised THEN r ELSE write_loop(i + 1, cs, r.vals, t)

\* mutant: each case is stored as soon as its own checks have passed
RECURSIVE write_set_PerCase(_, _, _)
write_set_PerCase(cs, v, t) ==
    IF cs = <<>>
    THEN [success |-> TRUE, error_msg |-> None, vals |-> v, cases |-> cs]
    ELSE LET r == write(cs[1], v, t)
         IN IF ~r.success
            THEN [success |-> FALSE, error_msg |-> r.error_msg, vals |-> r.vals,
                  cases |-> cs]
            ELSE LET rest == write_set_PerCase(Tail(cs), r.vals, t)
                 IN [rest EXCEPT !.cases = <<r.case>> \o rest.cases]

\* LawCase.write on the recordset cs: the loop of the checks, the stage
\* block, then super().write(vals) on every case and the recomputation of
\* the stored durations; a UserError stores nothing
write_set(cs, v, t) ==
    LET r == IF Has(v, "state") THEN write_loop(1, cs, v, t)
             ELSE [raised |-> FALSE, error_msg |-> None, vals |-> v]
    IN IF r.raised
       THEN [success |-> FALSE, error_msg |-> r.error_msg, vals |-> r.vals, cases |-> cs]
       ELSE LET v1 == write_stage(r.vals, t)
            IN [success |-> TRUE, error_msg |-> None, vals |-> v1,
                cases |-> [i \in DOMAIN cs |->
                              compute_actual_duration(orm_write(cs[i], v1))]]

\* a stored case in state s with lawyer l: a case that was opened has its
\* open date, a closed one its close date
StoredCase(s, l) ==
    [EmptyCase EXCEPT !.id = 1, !.state = s, !.responsible_employee_id = l,
                      !.open_date = IF s = "draft" THEN NoDate ELSE DateObj(1),
                      !.close_date = IF s = "closed" THEN DateObj(1) ELSE NoDate]

StoredCases == {StoredCase(s, l) : s \in STATES, l \in {0} \cup LawyerIds}

\* the recordsets: up to MaxCases cases, numbered by their position
Recordsets2 ==
    UNION {{[i \in 1 .. n |-> [cs[i] EXCEPT !.id = i]] : cs \in [1 .. n -> StoredCases]} :
              n \in 1 .. MaxCases}

\* the change-sets the recordset is written with
SetVals ==
    Ext(Ext({EmptyVals},
        "state", STATES),
        "responsible_employee_id", LawyerIds)

InitSet ==
    /\ case = EmptyCase
    /\ case_in = EmptyCase
    /\ old_state = "draft"
    /\ new_state = "draft"
    /\ today = MaxDay
    /\ vals = EmptyVals
    /\ vals_in = EmptyVals
    /\ result = NoResult
    /\ hooks = <<>>
    /\ log = <<>>
    /\ calls = "none"
    /\ NewManager
    /\ NewServices
    /\ reentry = EmptyVals
    /\ activities = 0
    /\ recordset \in Recordsets2

\* recordset.write(v)
LawCase_write_set(v) ==
    /\ LET r == write_set(recordset, v, today)
       IN /\ recordset' = r.cases
          /\ vals' = r.vals
          /\ result' = [success |-> r.success, error_msg |-> r.error_msg]
    /\ vals_in' = v
    /\ calls' = "LawCase.write"
    /\ UNCHANGED <<case, case_in, old_state, new_state, today, hooks, log>>
    /\ UNCHANGED <<evvars, svcvars, reentry, activities>>

NextSet == \E v \in SetVals : LawCase_write_set(v)

SpecSet == InitSet /\ [][NextSet]_vars

(***************************************************************************)
(* Properties of CaseStateMachine.transition (checked under SpecSM)        *)
(***************************************************************************)
Called == calls = "transition"

\* the six edges of the lifecycle, as the specification lists them
AllowedEdges ==
    {<<"draft", "open">>, <<"open", "on_hold">>, <<"open", "closed">>,
     <<"on_hold", "open">>, <<"on_hold", "closed">>, <<"closed", "draft">>}

\* a responsible lawyer is present: in the change-set, or already on the case
\* when the change-set does not mention the field
LawyerPresent(c, v) ==
    IF "responsible_employee_id" \in DOMAIN v
    THEN v["responsible_employee_id"] # 0
    ELSE c.responsible_employee_id # 0

\* the day a date value denotes
DayOf(x) == x.day

\* C1: a transition between two distinct registered states that is not one of
\* the six allowed edges fails, whatever the case and the change-set hold.
C1_IllegalEdgeRejected ==
    (/\ Called
     /\ old_state \in STATES /\ new_state \in STATES
     /\ old_state # new_state
     /\ <<old_state, new_state>> \notin AllowedEdges)
    => ~result.success

\* draft -> closed was requested with a lawyer in the change-set and failed
C1_Witness ==
    /\ Called
    /\ old_state = "draft" /\ new_state = "closed"
    /\ Has(vals_in, "responsible_employee_id")
    /\ vals_in["responsible_employee_id"] # 0
    /\ ~result.success

\* C2: on an allowed edge the transition succeeds exactly when the edge's
\* precondition holds: a responsible lawyer for the edges into open, nothing
\* for the other four.
C2_AllowedEdgeSucceedsIffPrecondition ==
    (Called /\ <<old_state, new_state>> \in AllowedEdges)
    => (result.success <=>
           (new_state = "open" => LawyerPresent(case, vals_in)))

\* on_hold -> open succeeded on the lawyer the case already had
C2_Witness ==
    /\ Called
    /\ old_state = "on_hold" /\ new_state = "open"
    /\ ~Has(vals_in, "responsible_employee_id")
    /\ case.responsible_employee_id # 0
    /\ result.success

\* C3: a transition with old_state = new_state succeeds, runs no hook and
\* leaves the change-set as it was passed in, however often it is applied.
C3_NoOpTransition ==
    (Called /\ old_state = new_state)
    => /\ result.success
       /\ result.error_msg = None
       /\ hooks = <<>>
       /\ vals = vals_in

\* a no-op transition of an open case was applied to a non-empty change-set
C3_Witness ==
    /\ Called
    /\ old_state = "open" /\ new_state = "open"
    /\ Has(vals, "state")
    /\ result.success

\* C4: when transition fails, the caller's change-set is as it was passed in.
C4_FailureLeavesValsUntouched ==
    (Called /\ ~result.success) => vals = vals_in

\* C5: a successful closed -> draft transition returns a change-set that sets
\* open_date and close_date to empty.
C5_DraftClearsDates ==
    (Called /\ old_state = "closed" /\ new_state = "draft" /\ result.success)
    => /\ Has(vals, "open_date") /\ vals["open_date"] = NoDate
       /\ Has(vals, "close_date") /\ vals["close_date"] = NoDate

\* C6: a successful transition into open returns a change-set that clears
\* close_date, and that sets open_date to today exactly when neither the case
\* nor the change-set had an open date; an existing one is left untouched.
\* Stated for the calls whose change-set names the new state.
C6_OpenSetsDates ==
    (/\ Called /\ new_state = "open" /\ old_state # new_state /\ result.success
     /\ Has(vals_in, "state"))
    => /\ Has(vals, "close_date") /\ vals["close_date"] = NoDate
       /\ IF ~DateTruthy(case.open_date) /\ ~DateTruthy(Get(vals_in, "open_date", NoDate))
          THEN Has(vals, "open_date") /\ vals["open_date"] = DateObj(today)
          ELSE Has(vals, "open_date") = Has(vals_in, "open_date")
               /\ (Has(vals, "open_date") => vals["open_date"] = vals_in["open_date"])

\* the open_date half of C6 holds on every call
OpenDateSetWhenAbsent ==
    (Called /\ new_state = "open" /\ old_state # new_state /\ result.success)
    => IF ~DateTruthy(case.open_date) /\ ~DateTruthy(Get(vals_in, "open_date", NoDate))
       THEN Has(vals, "open_date") /\ vals["open_date"] = DateObj(today)
       ELSE Has(vals, "open_date") = Has(vals_in, "open_date")
            /\ (Has(vals, "open_date") => vals["open_date"] = vals_in["open_date"])

\* C7: a successful transition into closed returns a change-set with a
\* close_date (the proposed one, or today when none was proposed) and, when
\* the case has an open date, actual_duration_days = close day - open day.
C7_ClosedSetsDateAndDuration ==
    (Called /\ new_state = "closed" /\ old_state # new_state /\ result.success)
    => /\ Has(vals, "close_date")
       /\ vals["close_date"] =
              (IF DateTruthy(Get(vals_in, "close_date", NoDate))
               THEN vals_in["close_date"]
               ELSE DateObj(today))
       /\ DateTruthy(case.open_date)
            => /\ Has(vals, "actual_duration_days")
               /\ vals["actual_duration_days"]
                     = DayOf(vals["close_date"]) - DayOf(case.open_date)

\* an open case with an open date was closed on a proposed ISO-string date
\* that differs from the open date
C7_Witness ==
    /\ Called
    /\ old_state = "open" /\ new_state = "closed" /\ result.success
    /\ DateTruthy(case.open_date)
    /\ Has(vals_in, "close_date") /\ IsStr(vals_in["close_date"])
    /\ ~Has(vals_in, "actual_duration_days")
    /\ vals["actual_duration_days"] # 0

(***************************************************************************)
(* Properties of CaseValidationService.validate (checked under SpecVal)    *)
(***************************************************************************)
Validated == calls \in {"create", "write"}

\* the state the case had when the change-set was validated; a creation
\* starts from draft
StateBefore == IF calls = "create" THEN "draft" ELSE case_in.state

RejectedBy(template) ==
    ~result.is_valid /\ result.error_msg # None /\ result.error_msg[1] = template

TransitionTemplate == "Transicion de estado no valida: %s -> %s"

LawyerTemplate == "Asigna un abogado responsable para abrir el caso."

\* C8: validate rejects a proposed state that is neither the current state nor
\* one of its allowed successors, and never rejects on transition grounds when
\* the proposed state is the current one or no state is proposed; a creation
\* counts as starting from draft.
C8_TransitionRule ==
    Validated =>
      /\ (/\ Has(vals, "state")
          /\ vals["state"] # StateBefore
          /\ <<StateBefore, vals["state"]>> \notin AllowedEdges)
         => RejectedBy(TransitionTemplate)
      /\ (~Has(vals, "state") \/ vals["state"] = StateBefore)
         => ~RejectedBy(TransitionTemplate)

\* a creation proposing closed was rejected as the transition draft -> closed
C8_Witness ==
    /\ calls = "create"
    /\ Has(vals, "state") /\ vals["state"] = "closed"
    /\ result = [is_valid |-> FALSE,
                 error_msg |-> <<TransitionTemplate, "draft", "closed">>]
    /\ ~CaseTruthy(case)

\* C9: a change-set that moves the case into open is accepted only if a
\* responsible lawyer is present (in the change-set, else on the case), and
\* the lawyer rule does not reject it when one is present.
C9_OpenNeedsLawyer ==
    (Validated /\ Has(vals, "state") /\ vals["state"] = "open")
    => /\ result.is_valid => LawyerPresent(case_in, vals)
       /\ LawyerPresent(case_in, vals) => ~RejectedBy(LawyerTemplate)

\* a draft case without a lawyer was opened by a change-set that also
\* supplies the lawyer
C9_Witness ==
    /\ calls = "write"
    /\ case_in.state = "draft" /\ case_in.responsible_employee_id = 0
    /\ Has(vals, "state") /\ vals["state"] = "open"
    /\ Has(vals, "responsible_employee_id")
    /\ result.is_valid
    /\ case.state = "open"

\* C10: after any sequence of validated creations and writes an open case has
\* a responsible lawyer; a write that only clears the lawyer of an open case
\* is rejected and stores nothing.
C10_OpenCaseHasLawyer ==
    /\ (CaseTruthy(case) /\ case.state = "open") => case.responsible_employee_id # 0
    /\ (/\ calls = "write"
        /\ case_in.state = "open"
        /\ ~Has(vals, "state")
        /\ Has(vals, "responsible_employee_id")
        /\ vals["responsible_employee_id"] = 0)
       => (~result.is_valid /\ case = case_in)

\* a write tried to clear the lawyer of an open case without touching the state
C10_Witness ==
    /\ calls = "write"
    /\ case_in.state = "open"
    /\ ~Has(vals, "state")
    /\ Has(vals, "responsible_employee_id")
    /\ vals["responsible_employee_id"] = 0
    /\ case.state = "open"

(***************************************************************************)
(* Properties of the financial, party-role and advisory rules and of the   *)
(* order of the chain (checked under SpecFin, SpecVal and SpecAdv)         *)
(***************************************************************************)
\* the effective value of a field: the change-set's where given, else the
\* case's, with d for a case that does not exist yet
Effective(f, d) == Get(vals, f, IF CaseTruthy(case_in) THEN case_in[f] ELSE d)

FinancialTemplate == FinancialDataValidator_get_error_message[1]

RoleTemplate == CounterpartyRoleValidator_get_error_message[1]

\* the four blocking rules, as the specification words them
TransitionOK ==
    \/ ~Has(vals, "state")
    \/ vals["state"] = StateBefore
    \/ <<StateBefore, vals["state"]>> \in AllowedEdges

LawyerOK ==
    Get(vals, "state", StateBefore) = "open" => LawyerPresent(case_in, vals)

FinOK ==
    LET claim == Effective("estimated_amount_claim", 0)
        recovery == Effective("estimated_amount_recovery", 0)
        costs == Effective("estimated_legal_costs", 0)
    IN /\ claim >= 0
       /\ costs >= 0
       /\ claim > 0 => recovery <= claim

RoleOK == Effective("client_role", "") \in {"", "plaintiff", "defendant"}

\* C11: on the effective amounts the financial rule accepts exactly when
\* claim >= 0, costs >= 0 and recovery <= claim whenever claim > 0: a
\* change-set that passed the transition and lawyer rules is rejected with
\* the financial message if and only if that condition fails.
C11_FinancialRule ==
    (Validated /\ ~RejectedBy(TransitionTemplate) /\ ~RejectedBy(LawyerTemplate))
    => (RejectedBy(FinancialTemplate) <=> ~FinOK)

\* a write giving only a recovery of 1500 to a case that claims 1000 was
\* rejected by the financial rule and stored nothing
C11_Witness ==
    /\ calls = "write"
    /\ case_in.estimated_amount_claim = 1000
    /\ DOMAIN vals = {"estimated_amount_recovery"}
    /\ vals["estimated_amount_recovery"] = 1500
    /\ RejectedBy(FinancialTemplate)
    /\ case = case_in

\* C12: in every state reached through accepted change-sets the recovered
\* amount of the case does not exceed its claimed amount.
C12_RecoveryWithinClaim ==
    CaseTruthy(case) => case.estimated_amount_recovery <= case.estimated_amount_claim

\* C13: a change-set proposing a client role other than plaintiff or defendant
\* is rejected, and the party-role rule does not reject one that proposes
\* plaintiff, defendant or no role.
C13_PartyRole ==
    Validated =>
      /\ (/\ Has(vals, "client_role")
          /\ vals["client_role"] \notin {"", "plaintiff", "defendant"})
         => ~result.is_valid
      /\ (\/ ~Has(vals, "client_role")
          \/ vals["client_role"] \in {"", "plaintiff", "defendant"})
         => ~RejectedBy(RoleTemplate)

\* a write proposing only the role 'judge' was rejected by the party-role rule
C13_Witness ==
    /\ calls = "write"
    /\ DOMAIN vals = {"client_role"}
    /\ vals["client_role"] = "judge"
    /\ RejectedBy(RoleTemplate)
    /\ case = case_in

\* C14: a change-set that satisfies the four blocking rules is accepted,
\* whether or not an advisory (role or practice area missing when opening,
\* outcome missing when closing) applies.
C14_AdvisoriesNeverReject ==
    (Validated /\ TransitionOK /\ LawyerOK /\ FinOK /\ RoleOK) => result.is_valid

\* a draft case was opened with neither client role nor practice area: both
\* advisories were logged and the change-set was accepted and stored
C14_Witness ==
    /\ calls = "write"
    /\ case_in.state = "draft"
    /\ Has(vals, "state") /\ vals["state"] = "open"
    /\ log = <<<<"Opening case without client role - precedent analysis will be limited">>,
               <<"Opening case without practice area">>>>
    /\ result.is_valid
    /\ case.state = "open" /\ case.client_role = "" /\ case.practice_area_id = 0

\* the order of the blocking rules the specification gives
BlockingOrder ==
    <<"StateTransitionValidator", "ResponsibleLawyerValidator",
      "FinancialDataValidator", "CounterpartyRoleValidator">>

Advisories == {"ClientRoleValidator", "PracticeAreaValidator", "ClosedCaseValidator"}

RuleOK(n) ==
    CASE n = "StateTransitionValidator" -> TransitionOK
      [] n = "ResponsibleLawyerValidator" -> LawyerOK
      [] n = "FinancialDataValidator" -> FinOK
      [] n = "CounterpartyRoleValidator" -> RoleOK

RuleTemplate(n) ==
    CASE n = "StateTransitionValidator" -> TransitionTemplate
      [] n = "ResponsibleLawyerValidator" -> LawyerTemplate
      [] n = "FinancialDataValidator" -> FinancialTemplate
      [] n = "CounterpartyRoleValidator" -> RoleTemplate

\* the position of the earliest failing blocking rule, 0 when none fails
FirstFailing ==
    LET failing == {i \in DOMAIN BlockingOrder : ~RuleOK(BlockingOrder[i])}
    IN IF failing = {} THEN 0
       ELSE CHOOSE i \in failing : \A j \in failing : i <= j

\* C15: the rules are evaluated in the order transition, lawyer, financial,
\* party role, then the advisories; a failure carries the message of the
\* earliest failing rule and no rule after that one is evaluated.
C15_FixedOrderFirstFailure ==
    Validated =>
      IF FirstFailing = 0
      THEN /\ result.is_valid
           /\ Len(hooks) = Len(BlockingOrder) + Cardinality(Advisories)
           /\ SubSeq(hooks, 1, Len(BlockingOrder)) = BlockingOrder
           /\ {hooks[i] : i \in Len(BlockingOrder) + 1 .. Len(hooks)} = Advisories
      ELSE /\ RejectedBy(RuleTemplate(BlockingOrder[FirstFailing]))
           /\ hooks = SubSeq(BlockingOrder, 1, FirstFailing)

\* a write that breaks all four blocking rules at once (closed -> open, no
\* lawyer, negative costs, role 'judge') was rejected by the transition rule
\* alone
C15_Witness ==
    /\ calls = "write"
    /\ ~TransitionOK /\ ~LawyerOK /\ ~FinOK /\ ~RoleOK
    /\ RejectedBy(TransitionTemplate)
    /\ hooks = <<"StateTransitionValidator">>
    /\ case = case_in

(***************************************************************************)
(* Properties of CaseEventManager (checked under SpecEv)                   *)
(***************************************************************************)
\* an event was dispatched by the latest call
Notified == calls = "notify" /\ event \in EventTypes

\* how often x occurs in the sequence s
Count(x, s) == Cardinality({i \in DOMAIN s : s[i] = x})

\* the observers registered at this moment
NowRegistered == {reg_order[i] : i \in DOMAIN reg_order}

\* the observer raised while the event was dispatched
Raised(o) ==
    \/ faults[o] = "can_handle"
    \/ can_handle(o.cls, event) /\ (faults[o] = "handle" \/ o.cls = BaseObserver)

\* the observer is registered and its can_handle returned true for the event
Handles(o) ==
    /\ o \in NowRegistered
    /\ faults[o] # "can_handle"
    /\ can_handle(o.cls, event)

BuiltinPriority ==
    [c \in BuiltinObservers |->
        CASE c = "FollowerObserver" -> 10
          [] c = "NotificationObserver" -> 40
          [] c = "DeadlineObserver" -> 60
          [] c = "AuditLogObserver" -> 80]

\* C17: notify invokes the handling observers in ascending order of priority
\* number, observers of equal priority in the order of their registration;
\* the built-in observers carry 10 < 40 < 60 < 80.
C17_PriorityOrder ==
    Notified =>
      /\ \A i, j \in DOMAIN handled :
           i < j => get_priority(handled[i].cls) <= get_priority(handled[j].cls)
      /\ \A p \in {get_priority(c) : c \in ObserverClasses} :
           SelectSeq(handled, LAMBDA o : get_priority(o.cls) = p)
           = SelectSeq(reg_order, LAMBDA o : get_priority(o.cls) = p /\ Handles(o))
      /\ \A c \in BuiltinObservers : get_priority(c) = BuiltinPriority[c]

\* two audit-log observers and then the follower observer were registered;
\* the follower observer was invoked first and the audit-log observers in
\* the order of their registration
C17_Witness ==
    /\ Notified
    /\ reg_order = <<[cls |-> "AuditLogObserver", id |-> 2],
                     [cls |-> "AuditLogObserver", id |-> 1],
                     [cls |-> "FollowerObserver", id |-> 1]>>
    /\ handled = <<[cls |-> "FollowerObserver", id |-> 1],
                   [cls |-> "AuditLogObserver", id |-> 2],
                   [cls |-> "AuditLogObserver", id |-> 1]>>

\* C18 as claimed: for every notified event the handle of an observer runs
\* exactly once if the observer is registered and its can_handle returns
\* true, and not at all otherwise.
C18_HandleExactlyOnce ==
    Notified =>
      \A o \in ObserverInstances :
        Count(o, handled) = IF Handles(o) THEN 1 ELSE 0

\* C18 as amended: for every notified event the handle of an observer runs
\* once for each registration the observer holds at that moment if its
\* can_handle returns true, and not at all otherwise; an unregistered
\* observer holds no registration, one registered later holds none before.
C18_HandleOncePerRegistration ==
    Notified =>
      \A o \in ObserverInstances :
        Count(o, handled) = IF Handles(o) THEN Count(o, reg_order) ELSE 0

\* an observer was registered twice and its handle ran twice for one event,
\* while an observer unregistered before the event was not invoked
C18_Witness ==
    /\ Notified
    /\ \E o \in NowRegistered : Count(o, reg_order) = 2 /\ Count(o, handled) = 2
    /\ \E o \in ObserverInstances : o \notin NowRegistered /\ Count(o, handled) = 0

(***************************************************************************)
(* Properties of LawCase.create / LawCase.write (checked under SpecCase)   *)
(***************************************************************************)
\* C19: the code a case received at its creation is never changed by a
\* LawCase.write, whatever the written change-set contains.
C19_CodeNeverChanges ==
    [][CaseTruthy(case) => case'.code = case.code]_vars

\* C20: a LawCase.write changes the stored state of a case only along one of
\* the six allowed edges; a write that would move it along another pair is
\* rejected and leaves the state as it was.
C20_WriteFollowsEdges ==
    [][(CaseTruthy(case) /\ case'.state # case.state)
       => <<case.state, case'.state>> \in AllowedEdges]_vars

(***************************************************************************)
(* Unregistered state names (checked under SpecSM)                         *)
(***************************************************************************)
NamesUnregistered == old_state \notin STATES \/ new_state \notin STATES

\* C28 as stated: a transition request that names an unregistered state, as
\* the old or as the new state, fails, runs no hook and leaves the change-set
\* as it was passed in.
C28_UnregisteredRejected ==
    (Called /\ NamesUnregistered)
    => /\ ~result.success
       /\ hooks = <<>>
       /\ vals = vals_in

\* C28 amended: a transition request whose old and new state differ and that
\* names an unregistered state fails with a message, runs no hook and leaves
\* the change-set as it was passed in; with old = new the request succeeds as
\* a no-op whatever the name.
C28_UnregisteredRejectedUnlessNoOp ==
    /\ (Called /\ NamesUnregistered /\ old_state # new_state)
       => /\ ~result.success
          /\ result.error_msg # None
          /\ hooks = <<>>
          /\ vals = vals_in
    /\ (Called /\ NamesUnregistered /\ old_state = new_state)
       => /\ result.success
          /\ hooks = <<>>
          /\ vals = vals_in

\* a draft case with a lawyer was asked to move to an unregistered state
C28_Witness ==
    /\ Called
    /\ old_state = "draft" /\ new_state = UnregisteredState
    /\ case.responsible_employee_id # 0
    /\ Has(vals_in, "state")
    /\ ~result.success

(***************************************************************************)
(* Properties of the success-rate engine (checked under SpecScore and      *)
(* SpecLawyer)                                                             *)
(***************************************************************************)
Computed == calls = "compute"

InRange(x) == FLe(Num(0), x) /\ FLe(x, Num(100))

Weights(strategy) ==
    CASE strategy = "DefaultSuccessRateStrategy" -> <<Frac(7, 10), Frac(3, 10)>>
      [] strategy = "CivilSuccessRateStrategy" -> <<Frac(6, 10), Frac(4, 10)>>
      [] strategy = "PenalSuccessRateStrategy" -> <<Frac(3, 4), Frac(1, 4)>>

ScoreBasedStrategies ==
    {"DefaultSuccessRateStrategy", "CivilSuccessRateStrategy", "PenalSuccessRateStrategy"}

\* the case of the worked example: evidence strong, case strength moderate, no
\* precedents, a lawyer with 0 years, no past cases and no active cases
IsExample(c) ==
    /\ c.evidence_strength = "strong"
    /\ c.case_strength = "moderate"
    /\ c.precedent_count = 0
    /\ c.lawyer.id # 0
    /\ c.lawyer.years_of_experience = 0
    /\ c.lawyer.past_total = 0
    /\ c.lawyer.active_cases = 0

EvidencePresent(c) == c.evidence_strength # ""
StrengthPresent(c) == c.case_strength # ""
PrecedentPresent(c) == c.client_role # "" /\ c.precedent_count >= 1

PrecedentWeight(strategy) ==
    IF strategy = "PenalSuccessRateStrategy" THEN Frac(6, 10) ELSE Num(1)

ClaimedSubScores(strategy, c) ==
    LET penal == strategy = "PenalSuccessRateStrategy"
    IN <<[present |-> EvidencePresent(c),
          value |-> Num(MapGet(IF penal THEN PenalEvidenceScores ELSE DefaultEvidenceScores,
                               c.evidence_strength))],
         [present |-> StrengthPresent(c),
          value |-> Num(MapGet(IF penal THEN PenalStrengthScores ELSE DefaultStrengthScores,
                               c.case_strength))],
         [present |-> PrecedentPresent(c),
          value |-> IF PrecedentPresent(c)
                    THEN FMul(FMul(Frac(c.favorable_precedents_count, c.precedent_count),
                                   Num(100)), PrecedentWeight(strategy))
                    ELSE Num(0)]>>

ClaimedIntrinsic(strategy, c) ==
    LET sub == ClaimedSubScores(strategy, c)
        included == {i \in 1..3 : sub[i].present}
        Val(i) == IF i \in included THEN sub[i].value ELSE Num(0)
    IN IF included = {} THEN Num(0)
       ELSE FDiv(FAdd(FAdd(Val(1), Val(2)), Val(3)), Num(Cardinality(included)))

\* C23: the intrinsic score is the sum of the included sub-scores divided by
\* their number, a sub-score being included exactly when its input is present
\* (evidence strength set; case strength set; client role set and at least
\* one precedent available), whatever its value, a precedent ratio of 0
\* included; it is 0 when no input is present.
C23_IntrinsicIsAverageOfPresent ==
    Computed => rate.avg_score = ClaimedIntrinsic(rate.strategy, rate_in)

\* C24: the lawyer score is 50 without a responsible lawyer and otherwise
\* clamp(50 + min(2 * years, 20) + A + P, 0, 100): A from the win rate over
\* the lawyer's closed won/lost cases of the practice area (+15 from 75%, +5
\* from 50%, -10 below 30%, -5 between), 0 without a practice area or without
\* such cases; P = -15 when more than 5 other cases of the lawyer are open,
\* practice area or not.
ClaimedLawyerScore(c) ==
    LET l == c.lawyer
        E == IF 2 * l.years_of_experience < 20 THEN 2 * l.years_of_experience ELSE 20
        A == IF c.practice_area.id = 0 \/ l.past_total < 1 THEN 0
             ELSE IF 100 * l.past_won >= 75 * l.past_total THEN 15
             ELSE IF 100 * l.past_won >= 50 * l.past_total THEN 5
             ELSE IF 100 * l.past_won < 30 * l.past_total THEN -10
             ELSE -5
        P == IF l.active_cases > 5 THEN -15 ELSE 0
        raw == 50 + E + A + P
    IN IF l.id = 0 THEN 50
       ELSE IF raw < 0 THEN 0 ELSE IF raw > 100 THEN 100 ELSE raw

C24_LawyerScore ==
    Computed => rate.lawyer_score = Num(ClaimedLawyerScore(rate_in))

\* a lawyer with a win rate between 30% and 50% and six other open cases was
\* scored on a case without a practice area and on one with
C24_Witness ==
    /\ Computed
    /\ rate_in.lawyer.past_total = 3 /\ rate_in.lawyer.past_won = 1
    /\ rate_in.lawyer.active_cases = 6
    /\ rate_in.lawyer.years_of_experience = 3
    /\ rate_in.practice_area.id # 0
    /\ rate.lawyer_score = Num(36)

(***************************************************************************)
(* Properties of StrategyRegistry (checked under SpecReg)                  *)
(***************************************************************************)
AllCodes == CodeSamples \cup RegisterCodes

\* the registered codes a code matches when letter case is ignored
MatchesIgnoringCase(reg, code) ==
    {k \in DOMAIN reg : k # "" /\ str_lower(k) = str_lower(code)}

\* C25: get_strategy returns the strategy registered for the code on an exact
\* match, else that of a registered code equal to it up to letter case, and
\* the default strategy for an absent code and for a code matching none.
C25_ExactThenCaseInsensitive ==
    (calls = "get_strategy")
    => IF lookup.code = "" THEN lookup.result = "DefaultSuccessRateStrategy"
       ELSE IF lookup.code \in DOMAIN registry THEN lookup.result = registry[lookup.code]
       ELSE IF MatchesIgnoringCase(registry, lookup.code) # {}
            THEN lookup.result \in {registry[k] : k \in MatchesIgnoringCase(registry, lookup.code)}
       ELSE lookup.result = "DefaultSuccessRateStrategy"

\* what a lookup of code c gives after register_strategy(code, S), in terms of
\* the lookups before it
AfterRegister(reg, code, S, c) ==
    IF c = "" THEN "DefaultSuccessRateStrategy"
    ELSE IF c = code THEN S
    ELSE IF c \notin DOMAIN reg /\ str_lower(c) = code THEN S
    ELSE get_strategy(reg, c)

Registers == calls' = "register_strategy"

\* C26 as stated: after register_strategy(code, S) with S a strategy class,
\* get_strategy(code) returns S for as long as nothing else is registered and
\* get_strategy of every other code is as before; with a class that is not a
\* strategy the call raises and the registry is as before.
C26_RegisterThenGet ==
    [][/\ (Registers /\ IsStrategyClass(lookup'.cls))
          => /\ ~lookup'.raised
             /\ get_strategy(registry', lookup'.code) = lookup'.cls
             /\ \A c \in AllCodes \ {lookup'.code} :
                    get_strategy(registry', c) = get_strategy(registry, c)
       /\ (Registers /\ ~IsStrategyClass(lookup'.cls))
          => lookup'.raised /\ registry' = registry
       /\ (calls' = "get_strategy") => registry' = registry]_vars

\* C26 amended: after register_strategy(code, S) with S a strategy class and
\* a non-empty code, get_strategy(code) returns S for as long as nothing else
\* is registered; get_strategy of another code is as before unless that code
\* is itself unregistered and its lower-case form is the registered code, in
\* which case it returns S too; the empty code keeps the default strategy.
\* With a class that is not a strategy the call raises and the registry is as
\* before.
C26_RegisterThenGetLowerCase ==
    [][/\ (Registers /\ IsStrategyClass(lookup'.cls))
          => /\ ~lookup'.raised
             /\ \A c \in AllCodes :
                    get_strategy(registry', c)
                        = AfterRegister(registry, lookup'.code, lookup'.cls, c)
       /\ (Registers /\ ~IsStrategyClass(lookup'.cls))
          => lookup'.raised /\ registry' = registry
       /\ (calls' = "get_strategy") => registry' = registry]_vars

\* a strategy was registered against a new code and then looked up
C26_Witness ==
    /\ calls = "get_strategy"
    /\ lookup.code = "LAB"
    /\ lookup.result = "MLBasedSuccessRateStrategy"
    /\ "CIV" \in DOMAIN registry

(***************************************************************************)
(* Properties of analyze_favorability (checked under SpecPrec)             *)
(***************************************************************************)
Analyzed == calls = "analyze_favorability"

\* C27: with a client role, each precedent lies in exactly one of the three
\* subsets (favorable: its favoured party is the role; unfavorable: it is set
\* and differs; neutral: it is unset), the counts are the subset sizes and sum
\* to the total, and favorable_ratio = favorable_count / total * 100 (3
\* favorable and 2 unfavorable of 5 give 60); the ratio is 0 for an empty set
\* and without a client role.
C27_FavorabilityPartition ==
    LET P == analysis_in.precedents
        role == analysis_in.client_role
        a == analysis
    IN Analyzed =>
       /\ (role # "")
          => /\ \A p \in DOMAIN P :
                   /\ p \in a.favorable <=> P[p] = role
                   /\ p \in a.unfavorable <=> (P[p] # "" /\ P[p] # role)
                   /\ p \in a.neutral <=> P[p] = ""
                   /\ Cardinality({S \in {a.favorable, a.unfavorable, a.neutral} : p \in S}) = 1
             /\ a.favorable \cup a.unfavorable \cup a.neutral = DOMAIN P
             /\ a.favorable \cap a.unfavorable = {}
             /\ a.favorable \cap a.neutral = {}
             /\ a.unfavorable \cap a.neutral = {}
             /\ a.favorable_count = Cardinality(a.favorable)
             /\ a.unfavorable_count = Cardinality(a.unfavorable)
             /\ a.neutral_count = Cardinality(a.neutral)
             /\ a.favorable_count + a.unfavorable_count + a.neutral_count = Len(P)
             /\ (Len(P) > 0)
                => FMul(a.favorable_ratio, Num(Len(P))) = Num(100 * a.favorable_count)
       /\ (a.favorable_count = 3 /\ a.unfavorable_count = 2 /\ Len(P) = 5)
          => a.favorable_ratio = Num(60)
       /\ (P = <<>> \/ role = "") => a.favorable_ratio = Num(0)

\* five precedents, three for the client's side, two for the other, were analyzed
C27_Witness ==
    /\ Analyzed
    /\ analysis_in.client_role = "defendant"
    /\ Len(analysis_in.precedents) = 5
    /\ analysis.favorable_count = 3
    /\ analysis.unfavorable_count = 2
    /\ analysis.favorable_ratio = Num(60)

(***************************************************************************)
(* Properties of CaseEventManager.get_instance (checked under SpecInst)    *)
(***************************************************************************)
\* C29: get_instance gets or creates a singleton: a call returns the manager
\* the earlier calls returned, so an observer registered through a manager
\* obtained earlier is invoked when an event it handles is notified through a
\* manager obtained later.
C29_SingletonManager ==
    [][/\ (calls' = "get_instance") => manager' = manager
       /\ (calls' = "notify" /\ event' \in EventTypes)
          => \A i \in DOMAIN reg_order' :
                can_handle(reg_order'[i].cls, event')
                => Count(reg_order'[i], handled') >= 1]_vars

(***************************************************************************)
(* Properties of the lifecycle (checked under SpecLife)                    *)
(***************************************************************************)
\* C30: the lifecycle has no dead end: each of draft, open, on_hold and
\* closed allows at least one transition, and a case with a responsible
\* lawyer can be brought from the state it is in to every state by a
\* sequence of successful transitions (closed from everywhere, and a closed
\* case back to open via draft).
C30_NoDeadEnd ==
    /\ \A s \in STATES : allowed_transitions(s) # {}
    /\ (case.responsible_employee_id # 0)
       => /\ \A target \in STATES :
                \E c \in ReachableFrom({case}, today) : c.state = target
          /\ (case.state = "closed")
             => \E d \in Successors(case, today) :
                   /\ d.state = "draft"
                   /\ \E o \in Successors(d, today) : o.state = "open"

\* a closed case with a lawyer was reopened as a draft
C30_Witness ==
    /\ calls = "transition"
    /\ old_state = "closed" /\ new_state = "draft"
    /\ result.success
    /\ case.state = "draft"
    /\ case.responsible_employee_id # 0

\* C33: along every sequence of successful transitions of a draft case without
\* dates, the change-sets naming only the new state and each returned
\* change-set written to the case, a case in open or on_hold has an open date
\* and no close date, and a case in closed has a close date.
C33_DatesFollowState ==
    /\ (case.state \in {"open", "on_hold"})
       => DateTruthy(case.open_date) /\ ~DateTruthy(case.close_date)
    /\ (case.state = "closed") => DateTruthy(case.close_date)

\* a case opened on day 1 and closed on day 2 was brought back to open
C33_Witness ==
    /\ case.state = "open"
    /\ case.actual_duration_days = 1
    /\ case.open_date = DateObj(1)
    /\ ~DateTruthy(case.close_date)
    /\ calls = "transition" /\ result.success

\* the entries of the change-set the hooks may set
HookFields == {"open_date", "close_date", "actual_duration_days"}

\* C34: transition leaves the case record as it is and changes no entry of
\* the change-set other than open_date, close_date and actual_duration_days:
\* the proposed state, the proposed lawyer and every other proposed entry come
\* back as passed in, nothing else is added, on every edge and every outcome.
C34_TransitionFrame ==
    Called
    => /\ case = case_in
       /\ (DOMAIN vals) \ HookFields = (DOMAIN vals_in) \ HookFields
       /\ \A k \in (DOMAIN vals_in) \ HookFields : vals[k] = vals_in[k]

\* a case was closed with a change-set that proposed a lawyer besides the
\* state; the hooks added the close date and the duration
C34_Witness ==
    /\ Called /\ result.success
    /\ old_state = "open" /\ new_state = "closed"
    /\ Has(vals_in, "responsible_employee_id") /\ Has(vals_in, "state")
    /\ ~Has(vals_in, "close_date")
    /\ Has(vals, "close_date") /\ Has(vals, "actual_duration_days")

\* the table of the claim over the values the case_strength field can store;
\* 'very_string' is the key of the level labelled 'Muy Fuerte' (very strong)
ClaimedStrengthScore(level) ==
    CASE level = "very_weak" -> 10
      [] level = "weak" -> 30
      [] level = "moderate" -> 50
      [] level = "strong" -> 75
      [] level = "very_string" -> 95

\* C36: for every classification the case_strength field can hold, the
\* case-strength sub-score (of the strategies that use the default table) is
\* the table value: very weak 10, weak 30, moderate 50, strong 75, very strong
\* 95.
C36_StrengthTable ==
    (/\ Computed
     /\ rate.strategy \in {"DefaultSuccessRateStrategy", "CivilSuccessRateStrategy"}
     /\ rate_in.case_strength # "")
    => rate.strength_score = Num(ClaimedStrengthScore(rate_in.case_strength))

(***************************************************************************)
(* Properties of the derived precedent counts (checked under SpecCount)    *)
(***************************************************************************)
\* C37: the unfavorable count derived on the case counts exactly the
\* available precedents whose favoured party is set and differs from the
\* client role, precedents without a favoured party counting neither as
\* favorable nor as unfavorable, so that the derived counts are those of
\* analyze_favorability on the same precedents and role.
C37_DerivedCountsAgree ==
    (calls = "_compute_precedent_analysis")
    => LET P == analysis_in.precedents
           role == analysis_in.client_role
           a == analyze_favorability(P, role)
       IN /\ analysis.favorable_precedents_count = a.favorable_count
          /\ analysis.unfavorable_precedents_count = a.unfavorable_count
          /\ (role # "")
             => analysis.unfavorable_precedents_count
                  = Cardinality({p \in DOMAIN P : P[p] # "" /\ P[p] # role})

(***************************************************************************)
(* Agreement of the validation chain and the state machine (checked under *)
(* SpecAgree)                                                              *)
(***************************************************************************)
\* the change-set names a built-in state other than the built-in state of the case
StateChanging(c, v) ==
    /\ c.state \in STATES
    /\ Has(v, "state") /\ v["state"] \in STATES
    /\ v["state"] # c.state

\* C32: for the four built-in states, a state-changing change-set that
\* CaseValidationService.validate accepts for a case is accepted by
\* CaseStateMachine.transition for that case too; VALID_TRANSITIONS and the
\* state objects' allowed_transitions are the same edges.
C32_ValidatedImpliesTransition ==
    /\ \A s \in STATES : VALID_TRANSITIONS(s) = allowed_transitions(s)
    /\ (calls = "validate" /\ result.is_valid /\ StateChanging(case, vals))
       => transition(case, case.state, vals["state"], vals, today).success
    /\ (Called /\ old_state = case.state /\ new_state = Get(vals_in, "state", "")
          /\ StateChanging(case, vals_in)
          /\ CaseValidationService_validate(case, vals_in).is_valid)
       => result.success

\* the chain accepted the opening of a draft case whose lawyer arrives in
\* the change-set
C32_Witness ==
    /\ calls = "validate" /\ result.is_valid
    /\ case.state = "draft" /\ case.responsible_employee_id = 0
    /\ Get(vals, "state", "") = "open"
    /\ Get(vals, "responsible_employee_id", 0) # 0

(***************************************************************************)
(* Properties of a dispatch whose observers change the registry (checked   *)
(* under SpecReent)                                                        *)
(***************************************************************************)
\* C38: when a handle routine registers or unregisters an observer on the
\* manager during notify, every observer that was registered when notify
\* started and can handle the event is invoked exactly once for it.
C38_DispatchUndisturbed ==
    [][(calls' = "notify" /\ reentry' # EmptyVals)
         => \A o \in Registered :
               can_handle(o.cls, event') => Count(o, handled') = 1]_vars

\* unregister_observer inside a handle routine leaves the running dispatch
\* alone: the observers registered at the start that can handle the event
\* are each invoked once
C38_UnregisterUndisturbed ==
    [][(calls' = "notify" /\ reentry' # EmptyVals
          /\ \A a \in DOMAIN reentry' : reentry'[a].kind = "unregister")
         => \A o \in Registered :
               can_handle(o.cls, event') => Count(o, handled') = 1]_vars

\* a handle routine registered an observer of higher priority than its own
\* and was invoked a second time for the same event
C38_InvokedTwice ==
    /\ calls = "notify" /\ reentry # EmptyVals
    /\ \E a \in DOMAIN reentry :
          /\ reentry[a].kind = "register"
          /\ get_priority(reentry[a].observer.cls) < get_priority(a.cls)
          /\ Count(a, handled) = 2

(***************************************************************************)
(* Properties of DeadlineObserver (checked under SpecDeadline)             *)
(***************************************************************************)
\* the observer has just handled the event of the case's transition to closed
ClosedHandled ==
    calls = "DeadlineObserver.handle" /\ event = "state_changed" /\ new_state = "closed"

\* C39: a case with an open date and a positive estimated duration has at
\* most one pending deadline reminder at any time, and none once the event
\* of its transition to closed has been handled.
C39_OnePendingReminder ==
    (DateTruthy(case.open_date) /\ case.estimated_duration_months > 0)
    => /\ activities <= 1
       /\ ClosedHandled => activities = 0

\* the part of C39 that holds: no reminder is pending once the event of the
\* transition to closed has been handled
C39_NoneAfterClosed == ClosedHandled => activities = 0

\* a case was re-opened from on_hold and has two pending reminders
C39_TwoReminders ==
    /\ calls = "DeadlineObserver.handle" /\ event = "state_changed"
    /\ old_state = "on_hold" /\ new_state = "open"
    /\ activities = 2

(***************************************************************************)
(* Properties of a validation chain with raising validators (checked       *)
(* under SpecRaise)                                                        *)
(***************************************************************************)
\* the positions of the validators that do not raise and report failure on
\* the inputs of the latest call
FailingOthers ==
    {i \in DOMAIN validators :
        /\ validators[i] \notin result.raised
        /\ ~validator_validate(validators[i], case_in, vals_in)}

\* C35: a validator that raises during CaseValidationService.validate does
\* not abort the chain: it counts as not having failed, the validators
\* after it are evaluated in order, and the call rejects only if one of the
\* other validators reports failure (with that validator's message).
C35_RaisingValidatorSkipped ==
    calls = "validate"
    => /\ result.is_valid <=> FailingOthers = {}
       /\ FailingOthers = {} => hooks = validators /\ result.error_msg = None
       /\ FailingOthers # {}
          => LET f == CHOOSE i \in FailingOthers : \A j \in FailingOthers : i <= j
             IN /\ hooks = SubSeq(validators, 1, f)
                /\ result.error_msg =
                     validator_get_error_message(validators[f], case_in, vals_in)

\* the first validator raised, and the chain went on to the second, which
\* rejected the change-set
C35_Witness ==
    /\ calls = "validate"
    /\ result.raised = {"StateTransitionValidator"}
    /\ ~result.is_valid
    /\ hooks = <<"StateTransitionValidator", "ResponsibleLawyerValidator">>

\* a validator that would have reported failure raised instead, and the
\* change-set was accepted
C35_WitnessAccepted ==
    /\ calls = "validate"
    /\ result.is_valid
    /\ \E n \in result.raised : ~validator_validate(n, case_in, vals_in)

(***************************************************************************)
(* Properties of LawCase.write on a recordset (checked under SpecSet)      *)
(***************************************************************************)
\* C31: a LawCase.write that is rejected (opening without a responsible
\* lawyer, closing a case that is neither open nor on_hold) changes no
\* stored field of any case of the written recordset, also when the checks
\* of earlier cases of the recordset had passed.
C31_RejectedWriteStoresNothing ==
    [][(calls' = "LawCase.write" /\ ~result'.success) => recordset' = recordset]_vars

\* a write of two cases was rejected at the second case after the checks of
\* the first had passed
C31_Witness ==
    /\ calls = "LawCase.write" /\ ~result.success
    /\ Len(recordset) >= 2
    /\ Has(vals_in, "state")
    /\ ~write_state(recordset[1], vals_in, today).raised
    /\ write_state(recordset[1], vals_in, today).vals # vals_in

====
